---- MODULE Spec2Model ----
(***************************************************************************)
(* Relay sequencing engine of the Commons Guild Protocol                    *)
(* (packages/relay/src/server.ts, store.ts, store_level.ts) together with   *)
(* the reducer and validator of packages/core.                              *)
(*                                                                          *)
(* One guild is modelled.  Every `await` of the source is a step boundary:  *)
(* the synchronous code between two awaits is one atomic action.  A store   *)
(* call takes effect when it is called; its caller resumes in a later step. *)
(***************************************************************************)
EXTENDS Integers, Sequences, FiniteSets, TLC

VARIABLES
    backing,        \* which Store the relay was constructed with
    logs,           \* MemoryStore.logs.get(guild): the event array (<<>> with hasLog = FALSE: no entry)
    hasLog,         \* MemoryStore.logs.has(guild)
    seqIndex,       \* MemoryStore.seqIndex.get(guild): seq -> array index
    db,             \* LevelStore: [ev: seq -> event (the seq keys), head: <<>> or <<seq>>]
    stateCache,     \* RelayServer.stateCache.get(guild): <<>> or <<GuildState>>
    mutexes,        \* RelayServer.mutexes.get(guild): the promise chain, as the queue of waiting ingests
    subscriptions,  \* RelayServer.subscriptions: socket -> set of subIds (all for the one guild)
    task,           \* per socket: the frame handler in progress (the per-socket messageQueue runs one at a time)
    ckpt,           \* the createCheckpoints() call in progress
    prn,            \* the prune() call in progress
    sent,           \* per socket: the frames socket.send was called with, in order
    quota,          \* inbound frames and timer runs a behaviour gets (bounds of the model)
    work,           \* how many of each have started, and how many publishes were accepted
    clients,        \* per peer: CgpClient.state.get(guild), seenEvents, seenEventsQueue, "event" emissions
    links,          \* per directed pair of connected peers: the frames in flight, in order
    net,            \* which CgpClient class the peers run, and how many frames they were given
    overlap,        \* the createCheckpoints() and prune() calls of a timer tick that fired while
                    \* the call of the tick before it was still in progress
    sweep,          \* a createCheckpoints() or prune() call over a store that holds several guilds
    chain           \* the last call of validateChain: its argument and what it returned

vars == <<backing, logs, hasLog, seqIndex, db, stateCache, mutexes, subscriptions,
          task, ckpt, prn, sent, quota, work, clients, links, net, overlap, sweep,
          chain>>

\* the variables of the clients (client.ts)
clientVars == <<clients, links, net>>

\* the variables of the relay (server.ts and its store)
relayVars == <<backing, logs, hasLog, seqIndex, db, stateCache, mutexes, subscriptions,
               task, ckpt, prn, sent, quota, work, overlap, sweep, chain>>

------------------------------------------------------------------------------
(* Bounds *)

\* PUBLISH frames a behaviour of Spec receives
MaxPublish == 4
\* PUBLISH frames a behaviour of SpecIngest receives
MaxIngest == 3
\* LevelStore writes that fail with an I/O error in a behaviour
MaxWriteFail == 1
\* PUBLISH frames a behaviour of SpecPrune receives
MaxPrunePublish == 3
\* PUBLISH frames a behaviour of SpecSession receives
MaxSessionPublish == 3
\* events the publishing peer of SpecMesh publishes
MaxMeshPublish == 3

------------------------------------------------------------------------------
(* Values *)

Sockets == {"s1", "s2"}
Users == {"A", "B"}
RelayKey == "R"
SubIds == {"sub"}
ChannelIds == {"c1"}
Targets == {"B"}
RoleIds == {"admin"}
CreatedAts == {0}
\* Date.now() when a timer runs: later than every createdAt by more than the ttl
Nows == {5000}
TtlSeconds == 1
Guild == "g"

Null == <<>>
NoSig == <<>>

Other(u) == CHOOSE v \in Users : v # u

------------------------------------------------------------------------------
(* crypto.ts *)

\* SHA-256 of the stable stringification: collision free, so the digest is the object itself.
hashObject(obj) == <<obj>>

sign(key, msgHash) == <<key, msgHash>>

\* a verifier that accepts every signature
verify_Always(pubKey, msgHash, sig) == TRUE

verify(pubKey, msgHash, sig) == sig = <<pubKey, msgHash>>

unsignedForSig(body, author, createdAt) ==
    [body |-> body, author |-> author, createdAt |-> createdAt]

\* computeEventId hashes the object it is given, whatever fields it has.
computeEventId(unsigned) == hashObject(unsigned)

\* a validateChain that does not recompute the id
validateChain_NoIdCheck(events) ==
    \A i \in 1..Len(events) :
        LET ev == events[i] IN
        /\ ev.seq = i - 1
        /\ (i = 1 => ev.prevHash = Null)
        /\ (i > 1 => ev.prevHash = events[i - 1].id)

\* log.ts validateChain: seq is the array index, prevHash links to the event
\* before, and id is computeEventId of the five fields listed.
validateChain(events) ==
    \A i \in 1..Len(events) :
        LET ev == events[i] IN
        /\ ev.seq = i - 1
        /\ (i = 1 => ev.prevHash = Null)
        /\ (i > 1 => ev.prevHash = events[i - 1].id)
        /\ computeEventId([seq |-> ev.seq, prevHash |-> ev.prevHash,
                           createdAt |-> ev.createdAt, author |-> ev.author,
                           body |-> ev.body]) = ev.id

------------------------------------------------------------------------------
(* types.ts: event bodies, as one record shape *)

\* an optional field that the sender left out
Undefined == "(undefined)"

\* createGuild(name) is called without a description
Body(t, access, ch, user, role, retention, ck) ==
    [type |-> t, guildId |-> Guild, description |-> Undefined, access |-> access,
     channelId |-> ch, userId |-> user, roleId |-> role, retention |-> retention,
     ckpt |-> ck]

GuildCreate(access) == Body("GUILD_CREATE", access, "", "", "", "", <<>>)
ChannelCreate(ch, ret) == Body("CHANNEL_CREATE", "", ch, "", "", ret, <<>>)
EphemeralPolicyUpdate(ch, ret) == Body("EPHEMERAL_POLICY_UPDATE", "", ch, "", "", ret, <<>>)
RoleAssign(u, r) == Body("ROLE_ASSIGN", "", "", u, r, "", <<>>)
RoleRevoke(u, r) == Body("ROLE_REVOKE", "", "", u, r, "", <<>>)
BanUser(u) == Body("BAN_USER", "", "", u, "", "", <<>>)
UnbanUser(u) == Body("UNBAN_USER", "", "", u, "", "", <<>>)
Message(ch) == Body("MESSAGE", "", ch, "", "", "", <<>>)
MemberUpdate == Body("MEMBER_UPDATE", "", "", "", "", "", <<>>)
Checkpoint(seq, rootHash, state) ==
    Body("CHECKPOINT", "", "", "", "", "", <<seq, rootHash, state>>)

PrivilegedTypes == {"CHANNEL_CREATE", "ROLE_ASSIGN", "ROLE_REVOKE", "BAN_USER",
                    "UNBAN_USER", "EPHEMERAL_POLICY_UPDATE"}

------------------------------------------------------------------------------
(* JavaScript Map, in insertion order: a sequence of <<key, value>> *)

MapHas(m, k) == \E i \in 1..Len(m) : m[i][1] = k

MapGet(m, k) == m[CHOOSE i \in 1..Len(m) : m[i][1] = k][2]

MapSet(m, k, v) ==
    IF MapHas(m, k)
    THEN [i \in 1..Len(m) |-> IF m[i][1] = k THEN <<k, v>> ELSE m[i]]
    ELSE Append(m, <<k, v>>)

MapDelete(m, k) == SelectSeq(m, LAMBDA e : e[1] # k)

------------------------------------------------------------------------------
(* state.ts *)

createInitialStateThrows(event) == event.body.type # "GUILD_CREATE"

createInitialState(event) ==
    [guildId |-> event.body.guildId,
     description |-> event.body.description,
     ownerId |-> event.author,
     channels |-> <<>>,
     roles |-> <<>>,
     members |-> << <<event.author, [roles |-> {"owner"}, joinedAt |-> event.createdAt]>> >>,
     bans |-> <<>>,
     createdAt |-> event.createdAt,
     headSeq |-> event.seq,
     headHash |-> event.id,
     access |-> IF event.body.access = "" THEN "public" ELSE event.body.access]

\* MEMBER_UPDATE reads the undeclared name newState: a ReferenceError.
applyEventThrows(state, event) == event.body.type = "MEMBER_UPDATE"

applyEventMembers(state, event) ==
    LET b == event.body IN
    CASE b.type = "ROLE_ASSIGN" ->
            LET member == IF MapHas(state.members, b.userId)
                          THEN MapGet(state.members, b.userId)
                          ELSE [roles |-> {}, joinedAt |-> event.createdAt]
            IN MapSet(state.members, b.userId,
                      [member EXCEPT !.roles = @ \cup {b.roleId}])
      [] b.type = "ROLE_REVOKE" ->
            IF MapHas(state.members, b.userId)
            THEN MapSet(state.members, b.userId,
                        [MapGet(state.members, b.userId) EXCEPT !.roles = @ \ {b.roleId}])
            ELSE state.members
      [] b.type = "BAN_USER" -> MapDelete(state.members, b.userId)
      [] OTHER -> state.members

applyEventChannels(state, event) ==
    LET b == event.body IN
    CASE b.type = "CHANNEL_CREATE" ->
            MapSet(state.channels, b.channelId, [retention |-> b.retention])
      [] b.type = "EPHEMERAL_POLICY_UPDATE" ->
            IF MapHas(state.channels, b.channelId)
            THEN MapSet(state.channels, b.channelId, [retention |-> b.retention])
            ELSE state.channels
      [] OTHER -> state.channels

applyEventBans(state, event) ==
    LET b == event.body IN
    CASE b.type = "BAN_USER" ->
            MapSet(state.bans, b.userId, [bannedAt |-> event.createdAt])
      [] b.type = "UNBAN_USER" -> MapDelete(state.bans, b.userId)
      [] OTHER -> state.bans

applyEvent(state, event) ==
    [state EXCEPT !.channels = applyEventChannels(state, event),
                  !.members = applyEventMembers(state, event),
                  !.bans = applyEventBans(state, event),
                  !.headSeq = event.seq,
                  !.headHash = event.id]

\* state = createInitialState(events[0]); for i >= 1: state = applyEvent(state, events[i]).
\* <<>> when either throws, else <<state>>.
RECURSIVE FoldFrom(_, _, _)
FoldFrom(state, events, i) ==
    IF i > Len(events) THEN <<state>>
    ELSE IF applyEventThrows(state, events[i]) THEN <<>>
    ELSE FoldFrom(applyEvent(state, events[i]), events, i + 1)

Rebuild(events) ==
    IF createInitialStateThrows(events[1]) THEN <<>>
    ELSE FoldFrom(createInitialState(events[1]), events, 2)

\* Array.from(set): the elements in insertion order. "owner" is inserted only by
\* createInitialState, so it precedes every assigned role.
RoleOrder == <<"owner", "admin">>

ArrayFromSet(set) == SelectSeq(RoleOrder, LAMBDA r : r \in set)

\* Maps become their entry arrays, each member's role Set becomes an array, a
\* missing description becomes ""; createdAt, headSeq and headHash are not part
\* of the serialized state.
serializeState(state) ==
    [guildId |-> state.guildId,
     description |-> IF state.description \in {Undefined, ""} THEN "" ELSE state.description,
     ownerId |-> state.ownerId,
     channels |-> state.channels,
     members |-> [i \in 1..Len(state.members) |->
                    <<state.members[i][1],
                      [roles |-> ArrayFromSet(state.members[i][2].roles),
                       joinedAt |-> state.members[i][2].joinedAt]>>],
     roles |-> state.roles,
     bans |-> state.bans,
     access |-> state.access]

\* the entry arrays become Maps again, each member's role array a Set; the head
\* and createdAt are what the caller passes
deserializeState(serialized, headSeq, headHash, createdAt) ==
    [guildId |-> serialized.guildId,
     description |-> serialized.description,
     ownerId |-> serialized.ownerId,
     channels |-> serialized.channels,
     roles |-> serialized.roles,
     members |-> [i \in 1..Len(serialized.members) |->
                    <<serialized.members[i][1],
                      [roles |-> {serialized.members[i][2].roles[j] :
                                     j \in 1..Len(serialized.members[i][2].roles)},
                       joinedAt |-> serialized.members[i][2].joinedAt]>>],
     bans |-> serialized.bans,
     createdAt |-> createdAt,
     headSeq |-> headSeq,
     headHash |-> headHash,
     access |-> serialized.access]

------------------------------------------------------------------------------
(* validation.ts *)

hasPermission(state, author) ==
    \/ state.ownerId = author
    \/ /\ MapHas(state.members, author)
       /\ MapGet(state.members, author).roles \cap {"admin", "owner"} # {}

\* "" when validateEvent returns, else the Error it throws.
validateEvent(state, event) ==
    LET body == event.body  author == event.author IN
    CASE body.type \in PrivilegedTypes ->
            IF ~hasPermission(state, author) THEN "permission" ELSE ""
      [] body.type = "MESSAGE" ->
            IF ~MapHas(state.channels, body.channelId) THEN "channel does not exist"
            ELSE IF MapHas(state.bans, author) THEN "banned"
            ELSE IF state.access = "private" /\ ~MapHas(state.members, author)
                 THEN "private"
            ELSE ""
      [] OTHER -> ""

------------------------------------------------------------------------------
(* Events *)

Event(id, seq, prevHash, createdAt, author, body, signature) ==
    [id |-> id, seq |-> seq, prevHash |-> prevHash, createdAt |-> createdAt,
     author |-> author, body |-> body, signature |-> signature]

Some(x) == <<x>>
None == <<>>

------------------------------------------------------------------------------
(* store.ts: MemoryStore.  Array indexes are 1-based here. *)

MemGetLog == IF hasLog THEN logs ELSE <<>>

MemGetLastEvent ==
    IF ~hasLog \/ Len(logs) = 0 THEN None ELSE Some(logs[Len(logs)])

MemAppendIndex(log, index, event) ==
    [q \in DOMAIN index \cup {event.seq} |->
        IF q = event.seq THEN Len(log) + 1 ELSE index[q]]

MemAppend(event) ==
    /\ logs' = Append(logs, event)
    /\ hasLog' = TRUE
    /\ seqIndex' = MemAppendIndex(logs, seqIndex, event)
    /\ UNCHANGED db

RemoveAt(log, i) == [j \in 1..(Len(log) - 1) |-> IF j < i THEN log[j] ELSE log[j + 1]]

\* rebuildGuildIndex: later entries win
rebuildGuildIndex(log) ==
    [q \in {log[i].seq : i \in 1..Len(log)} |->
        CHOOSE i \in 1..Len(log) :
            /\ log[i].seq = q
            /\ \A j \in 1..Len(log) : log[j].seq = q => j <= i]

\* findIndex: the first match
findIndex(log, seq) ==
    IF \E i \in 1..Len(log) : log[i].seq = seq
    THEN CHOOSE i \in 1..Len(log) :
            /\ log[i].seq = seq
            /\ \A j \in 1..Len(log) : log[j].seq = seq => i <= j
    ELSE 0

MemDeleteIndex(log, index, seq) ==
    IF /\ seq \in DOMAIN index
       /\ index[seq] <= Len(log)
       /\ log[index[seq]].seq = seq
    THEN index[seq]
    ELSE findIndex(log, seq)

MemDeleteEvent(seq) ==
    /\ UNCHANGED <<hasLog, db>>
    /\ IF ~hasLog THEN UNCHANGED <<logs, seqIndex>>
       ELSE LET i == MemDeleteIndex(logs, seqIndex, seq) IN
            IF i = 0 THEN UNCHANGED <<logs, seqIndex>>
            ELSE /\ logs' = RemoveAt(logs, i)
                 /\ seqIndex' = rebuildGuildIndex(RemoveAt(logs, i))

------------------------------------------------------------------------------
(* store_level.ts: LevelStore.  db.ev are the "guild:g:seq:<seq>" keys, db.head
   the "guild:g:head" key. *)

RECURSIVE Ascending(_, _)
Ascending(ev, keys) ==
    IF keys = {} THEN <<>>
    ELSE LET k == CHOOSE x \in keys : \A y \in keys : x <= y
         IN <<ev[k]>> \o Ascending(ev, keys \ {k})

LevelGetLog == Ascending(db.ev, DOMAIN db.ev)

LevelGetLastEvent ==
    IF db.head = <<>> THEN None
    ELSE IF db.head[1] \in DOMAIN db.ev THEN Some(db.ev[db.head[1]])
    ELSE None

LevelPutKey(event) ==
    /\ db' = [db EXCEPT !.ev = [q \in DOMAIN db.ev \cup {event.seq} |->
                                    IF q = event.seq THEN event ELSE db.ev[q]]]
    /\ UNCHANGED <<logs, hasLog, seqIndex>>

LevelPutHead(event) ==
    /\ db' = [db EXCEPT !.head = <<event.seq>>]
    /\ UNCHANGED <<logs, hasLog, seqIndex>>

LevelDeleteEvent(seq) ==
    /\ db' = [db EXCEPT !.ev = [q \in DOMAIN db.ev \ {seq} |-> db.ev[q]]]
    /\ UNCHANGED <<logs, hasLog, seqIndex>>

------------------------------------------------------------------------------
(* The Store the relay holds *)

getLog == IF backing = "memory" THEN MemGetLog ELSE LevelGetLog

getLastEvent == IF backing = "memory" THEN MemGetLastEvent ELSE LevelGetLastEvent

\* getGuildIds() contains the guild
getGuildIds ==
    IF backing = "memory" THEN hasLog
    ELSE DOMAIN db.ev # {} \/ db.head # <<>>

\* What a caller of getLog holds: MemoryStore returns its own array (the caller
\* sees later appends and deletes), LevelStore a fresh one.
getLogRef ==
    IF backing = "memory" /\ hasLog THEN <<"alias">> ELSE <<"val", getLog>>

Deref(ref) == IF ref[1] = "alias" THEN logs ELSE ref[2]

\* The first write of store.append(event)
appendCall(event) ==
    IF backing = "memory" THEN MemAppend(event) ELSE LevelPutKey(event)

deleteEvent(seq) ==
    IF backing = "memory" THEN MemDeleteEvent(seq) ELSE LevelDeleteEvent(seq)

storeVars == <<logs, hasLog, seqIndex, db>>

------------------------------------------------------------------------------
(* Frames the relay sends *)

ErrorFrame(code, message) ==
    [kind |-> "ERROR", code |-> code, message |-> message, events |-> <<>>, endSeq |-> 0]

EventFrame(event) ==
    [kind |-> "EVENT", code |-> "", message |-> "", events |-> <<event>>, endSeq |-> 0]

SnapshotFrame(events) ==
    [kind |-> "SNAPSHOT", code |-> "", message |-> "", events |-> events,
     endSeq |-> Len(events) - 1]

\* socket.send(frame) on socket s, after the sends `out` already holds
Send(out, s, frame) == [out EXCEPT ![s] = Append(@, frame)]

\* broadcast(guildId, event): one EVENT per subscription of each socket
broadcast(out, event) ==
    [s \in Sockets |->
        IF subscriptions[s] # {} THEN Append(out[s], EventFrame(event)) ELSE out[s]]

------------------------------------------------------------------------------
(* Inbound PUBLISH payloads *)

Bodies ==
    {GuildCreate(a) : a \in {"public", "private"}}
    \cup {ChannelCreate(c, "ttl") : c \in ChannelIds}
    \cup {EphemeralPolicyUpdate(c, "infinite") : c \in ChannelIds}
    \cup {RoleAssign(u, r) : u \in Targets, r \in RoleIds}
    \cup {RoleRevoke(u, r) : u \in Targets, r \in RoleIds}
    \cup {BanUser(u) : u \in Targets}
    \cup {UnbanUser(u) : u \in Targets}
    \cup {Message(c) : c \in ChannelIds}
    \cup {MemberUpdate}

\* the bodies of a guild with one channel, one promoted member and messages
CoreBodies ==
    {GuildCreate("private")}
    \cup {ChannelCreate(c, "ttl") : c \in ChannelIds}
    \cup {RoleAssign(u, r) : u \in Targets, r \in RoleIds}
    \cup {Message(c) : c \in ChannelIds}

Payload(body, author, signature, createdAt) ==
    [body |-> body, author |-> author, signature |-> signature, createdAt |-> createdAt]

\* signed by the author
Signed(body, author, createdAt) ==
    Payload(body, author,
            sign(author, hashObject(unsignedForSig(body, author, createdAt))), createdAt)

\* signed by another key
Forged(body, author, createdAt) ==
    Payload(body, author,
            sign(Other(author), hashObject(unsignedForSig(body, author, createdAt))),
            createdAt)

\* a signature that was damaged on the way
Tampered(body, author, createdAt) == Payload(body, author, <<author, <<>>>>, createdAt)

SignedPayloads(bodies) ==
    {Signed(b, a, t) : b \in bodies, a \in Users, t \in CreatedAts}

BadPayloads(bodies) ==
    {Forged(b, a, t) : b \in bodies, a \in Users, t \in CreatedAts}
    \cup {Tampered(b, a, t) : b \in bodies, a \in Users, t \in CreatedAts}

Payloads == SignedPayloads(Bodies) \cup BadPayloads(Bodies)

CorePayloads == SignedPayloads(CoreBodies) \cup BadPayloads({Message(c) : c \in ChannelIds})

------------------------------------------------------------------------------
(* Task records *)

Idle == [pc |-> "idle", ev |-> None, ref |-> None]

Budget(publish, sub, ck, prune, fail) ==
    [publish |-> publish, sub |-> sub, ck |-> ck, prune |-> prune, fail |-> fail]

\* work.unsub: the <<socket, subId>> whose last SUB or UNSUB frame was an UNSUB;
\* work.frames: the raw frames the message handler has taken
NoWork ==
    [publish |-> 0, sub |-> 0, ck |-> 0, prune |-> 0, fail |-> 0, accepted |-> 0,
     unsub |-> {}, frames |-> 0]

\* the relay after construction, on one of `backings`, with the inbound work `b`
RelayInit(backings, b) ==
    /\ backing \in backings
    /\ logs = <<>>
    /\ hasLog = FALSE
    /\ seqIndex = <<>>
    /\ db = [ev |-> <<>>, head |-> None]
    /\ stateCache = None
    /\ mutexes = <<>>
    /\ subscriptions = [s \in Sockets |-> {}]
    /\ task = [s \in Sockets |-> Idle]
    /\ ckpt = Idle
    /\ prn = [pc |-> "idle", ref |-> None, del |-> <<>>, now |-> 0]
    /\ overlap = [ckpt |-> Idle,
                  prn |-> [pc |-> "idle", ref |-> None, del |-> <<>>, now |-> 0]]
    /\ sweep = <<>>
    /\ chain = <<>>
    /\ sent = [s \in Sockets |-> <<>>]
    /\ quota = b
    /\ work = NoWork

\* no client is modelled: the peers' variables stay as they are
NoClients ==
    /\ clients = <<>>
    /\ links = <<>>
    /\ net = <<>>

InitWith(backings, b) == RelayInit(backings, b) /\ NoClients

------------------------------------------------------------------------------
(* server.ts: PUBLISH -> appendSequencedEvent -> processEvent *)

\* handleMessage, PUBLISH: the ingest joins the guild's promise chain.  Nothing
\* reads the frame's payload before processEvent has the head, so the payload is
\* drawn there (ProcessSequence).
RecvPublish(s) ==
    /\ task[s].pc = "idle"
    /\ work.publish < quota.publish
    /\ work' = [work EXCEPT !.publish = @ + 1]
    /\ task' = [task EXCEPT ![s] = [Idle EXCEPT !.pc = "queued"]]
    /\ mutexes' = Append(mutexes, s)
    /\ UNCHANGED <<chain, sweep, overlap, clientVars, backing, quota, storeVars, stateCache, subscriptions, ckpt, prn, sent>>

\* processEvent returns or throws: the chain moves on, the socket's handler ends
Release(s) ==
    /\ mutexes' = Tail(mutexes)
    /\ task' = [task EXCEPT ![s] = Idle]

\* processEvent started at once, without the promise chain
ProcessGetLastEvent_NoLock(s) ==
    /\ task[s].pc = "queued"
    /\ task' = [task EXCEPT ![s].pc = "gotLast", ![s].ev = getLastEvent]
    /\ UNCHANGED <<chain, sweep, overlap, clientVars, backing, storeVars, stateCache, mutexes, subscriptions, ckpt, prn,
                   sent, quota, work>>

\* processEvent starts once the previous link of the chain has settled
ProcessGetLastEvent(s) ==
    /\ task[s].pc = "queued"
    /\ mutexes # <<>> /\ Head(mutexes) = s
    /\ task' = [task EXCEPT ![s].pc = "gotLast", ![s].ev = getLastEvent]
    /\ UNCHANGED <<chain, sweep, overlap, clientVars, backing, storeVars, stateCache, mutexes, subscriptions, ckpt, prn,
                   sent, quota, work>>

\* the ERROR frame goes to every socket
Reject_ToAll(s, frame) ==
    /\ sent' = [t \in Sockets |-> Append(sent[t], frame)]
    /\ Release(s)
    /\ UNCHANGED <<storeVars, work>>

\* an ERROR frame to the publisher; nothing is stored
Reject(s, frame) ==
    /\ sent' = Send(sent, s, frame)
    /\ Release(s)
    /\ UNCHANGED <<storeVars, work>>

\* a chain without its catch: the thrown error stays at the head of the chain
WriteFails_KeepsLock(s) ==
    /\ backing = "level"
    /\ work.fail < quota.fail
    /\ work' = [work EXCEPT !.fail = @ + 1]
    /\ sent' = Send(sent, s, ErrorFrame("INTERNAL_ERROR", "put failed"))
    /\ task' = [task EXCEPT ![s] = Idle]
    /\ UNCHANGED mutexes

\* a write of the LevelStore throws: processEvent rejects, the socket's queue
\* replies INTERNAL_ERROR
WriteFails(s) ==
    /\ backing = "level"
    /\ work.fail < quota.fail
    /\ work' = [work EXCEPT !.fail = @ + 1]
    /\ sent' = Send(sent, s, ErrorFrame("INTERNAL_ERROR", "put failed"))
    /\ Release(s)

\* await this.store.append(...): the first write, or an I/O error of the LevelStore
CallAppend(s, fullEvent) ==
    \/ /\ appendCall(fullEvent)
       /\ task' = [task EXCEPT ![s].pc = IF backing = "memory" THEN "appended" ELSE "put1",
                               ![s].ev = Some(fullEvent)]
       /\ UNCHANGED <<mutexes, sent, work>>
    \/ /\ WriteFails(s)
       /\ UNCHANGED storeVars

\* validateEvent, applyEvent into the cache, then append
ValidateAndAppend(s, state, cache, fullEvent) ==
    LET err == validateEvent(state, fullEvent) IN
    IF err # ""
    THEN /\ stateCache' = cache
         /\ Reject(s, ErrorFrame("VALIDATION_FAILED", err))
    ELSE IF applyEventThrows(state, fullEvent)
    THEN /\ stateCache' = cache
         /\ Reject(s, ErrorFrame("VALIDATION_FAILED", "newState is not defined"))
    ELSE /\ stateCache' = Some(applyEvent(state, fullEvent))
         /\ CallAppend(s, fullEvent)

\* seq, prevHash and id of the event being ingested
Sequenced(p, lastEvent) ==
    LET seq == IF lastEvent # None THEN lastEvent[1].seq + 1 ELSE 0
        prevHash == IF lastEvent # None THEN lastEvent[1].id ELSE Null
        fullEvent == Event(<<>>, seq, prevHash, p.createdAt, p.author, p.body, p.signature)
    IN [fullEvent EXCEPT !.id = computeEventId(fullEvent)]

ProcessSequence(s, p) ==
    /\ task[s].pc = "gotLast"
    /\ LET fullEvent == Sequenced(p, task[s].ev)
           seq == fullEvent.seq
       IN
       IF ~verify(p.author, hashObject(unsignedForSig(p.body, p.author, p.createdAt)),
                  p.signature)
       THEN /\ Reject(s, ErrorFrame("INVALID_SIGNATURE", "Signature verification failed"))
            /\ UNCHANGED stateCache
       ELSE IF seq > 0
       THEN IF stateCache # None /\ stateCache[1].headSeq = seq - 1
            THEN ValidateAndAppend(s, stateCache[1], stateCache, fullEvent)
            ELSE /\ task' = [task EXCEPT ![s].pc = "gotLog", ![s].ev = Some(fullEvent),
                                         ![s].ref = getLogRef]
                 /\ UNCHANGED <<storeVars, stateCache, mutexes, sent, work>>
       ELSE IF p.body.type # "GUILD_CREATE"
       THEN /\ Reject(s, ErrorFrame("VALIDATION_FAILED", "First event must be GUILD_CREATE"))
            /\ UNCHANGED stateCache
       ELSE /\ stateCache' = Some(createInitialState(fullEvent))
            /\ CallAppend(s, fullEvent)
    /\ UNCHANGED <<chain, sweep, overlap, clientVars, backing, subscriptions, ckpt, prn, quota>>

\* cache miss: the state is rebuilt from the stored history
ProcessRebuild(s) ==
    /\ task[s].pc = "gotLog"
    /\ LET history == Deref(task[s].ref)
           fullEvent == task[s].ev[1]
       IN
       IF Len(history) = 0
       THEN /\ Release(s)
            /\ UNCHANGED <<storeVars, stateCache, sent, work>>
       ELSE IF Rebuild(history) = None
       THEN /\ Reject(s, ErrorFrame("INTERNAL_ERROR", "rebuild failed"))
            /\ UNCHANGED stateCache
       ELSE ValidateAndAppend(s, Rebuild(history)[1], Rebuild(history), fullEvent)
    /\ UNCHANGED <<chain, sweep, overlap, clientVars, backing, subscriptions, ckpt, prn, quota>>

\* LevelStore.append, second write: the head pointer
ProcessPutHead(s) ==
    /\ task[s].pc = "put1"
    /\ \/ /\ LevelPutHead(task[s].ev[1])
          /\ task' = [task EXCEPT ![s].pc = "appended"]
          /\ UNCHANGED <<mutexes, sent, work>>
       \/ /\ WriteFails(s)
          /\ UNCHANGED storeVars
    /\ UNCHANGED <<chain, sweep, overlap, clientVars, backing, stateCache, subscriptions, ckpt, prn, quota>>

\* this.broadcast(targetGuildId, fullEvent); return fullEvent
ProcessBroadcast(s) ==
    /\ task[s].pc = "appended"
    /\ sent' = broadcast(sent, task[s].ev[1])
    /\ Release(s)
    /\ work' = [work EXCEPT !.accepted = @ + 1]
    /\ UNCHANGED <<chain, sweep, overlap, clientVars, backing, storeVars, stateCache, subscriptions, ckpt, prn, quota>>

------------------------------------------------------------------------------
(* server.ts: SUB *)

RecvSub(s, subId) ==
    /\ task[s].pc = "idle"
    /\ work.sub < quota.sub
    /\ work' = [work EXCEPT !.sub = @ + 1, !.unsub = @ \ {<<s, subId>>}]
    /\ subscriptions' = [subscriptions EXCEPT ![s] = @ \cup {subId}]
    /\ task' = [task EXCEPT ![s] = [Idle EXCEPT !.pc = "snapshot", !.ref = getLogRef]]
    /\ UNCHANGED <<chain, sweep, overlap, clientVars, backing, quota, storeVars, stateCache, mutexes, ckpt, prn, sent>>

SendSnapshot(s) ==
    /\ task[s].pc = "snapshot"
    /\ sent' = Send(sent, s, SnapshotFrame(Deref(task[s].ref)))
    /\ task' = [task EXCEPT ![s] = Idle]
    /\ UNCHANGED <<chain, sweep, overlap, clientVars, backing, storeVars, stateCache, mutexes, subscriptions, ckpt, prn, quota, work>>

\* handleMessage with kind "UNSUB": no branch matches, the frame has no effect
RecvUnsub(s, subId) ==
    /\ task[s].pc = "idle"
    /\ <<s, subId>> \notin work.unsub
    /\ work' = [work EXCEPT !.unsub = @ \cup {<<s, subId>>}]
    /\ UNCHANGED <<chain, sweep, overlap, clientVars, backing, quota, storeVars, stateCache, mutexes, subscriptions, task, ckpt,
                   prn, sent>>

------------------------------------------------------------------------------
(* server.ts: createCheckpoints *)

\* the CHECKPOINT event built from the log `events` at time `now`
CheckpointEvent(events, state, now) ==
    LET lastEvent == events[Len(events)]
        serializedState == serializeState(state)
        body == Checkpoint(lastEvent.seq + 1, hashObject(serializedState), serializedState)
        fullEvent == Event(<<>>, lastEvent.seq + 1, lastEvent.id, now, RelayKey, body, NoSig)
    IN [fullEvent EXCEPT
          !.id = computeEventId(fullEvent),
          !.signature = sign(RelayKey, hashObject(unsignedForSig(body, RelayKey, now)))]

\* getGuildIds() lists the guild; getLog(guildId) is called
CheckpointStart ==
    /\ ckpt.pc = "idle"
    /\ work.ck < quota.ck
    /\ getGuildIds
    /\ work' = [work EXCEPT !.ck = @ + 1]
    /\ ckpt' = [Idle EXCEPT !.pc = "gotLog", !.ref = getLogRef]
    /\ UNCHANGED <<chain, sweep, overlap, clientVars, backing, quota, storeVars, stateCache, mutexes, subscriptions, task, prn, sent>>

\* rebuild the state, build the event, await sign(...)
CheckpointBuild(now) ==
    /\ ckpt.pc = "gotLog"
    /\ LET events == Deref(ckpt.ref) IN
       IF Len(events) = 0 THEN ckpt' = Idle
       ELSE IF Rebuild(events) = None THEN ckpt' = Idle
       ELSE IF events[Len(events)].body.type = "CHECKPOINT" THEN ckpt' = Idle
       ELSE ckpt' = [Idle EXCEPT !.pc = "signing",
                                 !.ev = Some(CheckpointEvent(events, Rebuild(events)[1], now))]
    /\ UNCHANGED <<chain, sweep, overlap, clientVars, backing, storeVars, stateCache, mutexes, subscriptions, task, prn, sent,
                   quota, work>>

\* a write of the LevelStore throws: createCheckpoints rejects, the timer logs it
CheckpointWriteFails ==
    /\ backing = "level"
    /\ work.fail < quota.fail
    /\ work' = [work EXCEPT !.fail = @ + 1]
    /\ ckpt' = Idle
    /\ UNCHANGED storeVars

\* await this.store.append(guildId, fullEvent): no guild lock is taken
CheckpointAppend ==
    /\ ckpt.pc = "signing"
    /\ \/ /\ appendCall(ckpt.ev[1])
          /\ ckpt' = [ckpt EXCEPT !.pc = IF backing = "memory" THEN "appended" ELSE "put1"]
          /\ UNCHANGED work
       \/ CheckpointWriteFails
    /\ UNCHANGED <<chain, sweep, overlap, clientVars, backing, stateCache, mutexes, subscriptions, task, prn, sent, quota>>

CheckpointPutHead ==
    /\ ckpt.pc = "put1"
    /\ \/ /\ LevelPutHead(ckpt.ev[1])
          /\ ckpt' = [ckpt EXCEPT !.pc = "appended"]
          /\ UNCHANGED work
       \/ CheckpointWriteFails
    /\ UNCHANGED <<chain, sweep, overlap, clientVars, backing, stateCache, mutexes, subscriptions, task, prn, sent, quota>>

CheckpointBroadcast ==
    /\ ckpt.pc = "appended"
    /\ sent' = broadcast(sent, ckpt.ev[1])
    /\ ckpt' = Idle
    /\ UNCHANGED <<chain, sweep, overlap, clientVars, backing, storeVars, stateCache, mutexes, subscriptions, task, prn, quota, work>>

------------------------------------------------------------------------------
(* server.ts: prune *)

PruneIdle == [pc |-> "idle", ref |-> None, del |-> <<>>, now |-> 0]

\* the channel's retention is ttl with seconds set, and the message is older
Expired(state, event, now) ==
    /\ event.body.type = "MESSAGE"
    /\ MapHas(state.channels, event.body.channelId)
    /\ MapGet(state.channels, event.body.channelId).retention = "ttl"
    /\ TtlSeconds # 0
    /\ now - event.createdAt > 1000 * TtlSeconds

seqsToDelete(events, state, now) ==
    LET doomed == SelectSeq(events, LAMBDA e : Expired(state, e, now))
    IN [i \in 1..Len(doomed) |-> doomed[i].seq]

\* getGuildIds(); now = Date.now(); getLog(guildId) is called
PruneStart(now) ==
    /\ prn.pc = "idle"
    /\ work.prune < quota.prune
    /\ getGuildIds
    /\ work' = [work EXCEPT !.prune = @ + 1]
    /\ prn' = [PruneIdle EXCEPT !.pc = "gotLog", !.ref = getLogRef, !.now = now]
    /\ UNCHANGED <<chain, sweep, overlap, clientVars, backing, quota, storeVars, stateCache, mutexes, subscriptions, task, ckpt, sent>>

PruneScan ==
    /\ prn.pc = "gotLog"
    /\ LET events == Deref(prn.ref)
           del == seqsToDelete(events, Rebuild(events)[1], prn.now)
       IN
       IF Len(events) = 0 THEN prn' = PruneIdle
       ELSE IF Rebuild(events) = None THEN prn' = PruneIdle
       ELSE IF del = <<>> THEN prn' = PruneIdle
       ELSE prn' = [PruneIdle EXCEPT !.pc = "deleting", !.del = del, !.now = prn.now]
    /\ UNCHANGED <<chain, sweep, overlap, clientVars, backing, storeVars, stateCache, mutexes, subscriptions, task, ckpt, sent,
                   quota, work>>

\* await this.store.deleteEvent(guildId, seq), one seq at a time
PruneDelete ==
    /\ prn.pc = "deleting"
    /\ deleteEvent(Head(prn.del))
    /\ prn' = IF Tail(prn.del) = <<>> THEN PruneIdle ELSE [prn EXCEPT !.del = Tail(@)]
    /\ UNCHANGED <<chain, sweep, overlap, clientVars, backing, stateCache, mutexes, subscriptions, task, ckpt, sent, quota, work>>

------------------------------------------------------------------------------
(* server.ts: the timers.  setInterval calls createCheckpoints() and prune()
   every 60 seconds whether or not the call of the tick before has returned.
   ckpt and prn hold the call that started with no other in progress, overlap
   the call of a tick that fired meanwhile; both run the same code. *)

SecondCheckpointStart ==
    /\ ckpt.pc # "idle"
    /\ overlap.ckpt.pc = "idle"
    /\ work.ck < quota.ck
    /\ getGuildIds
    /\ work' = [work EXCEPT !.ck = @ + 1]
    /\ overlap' = [overlap EXCEPT !.ckpt = [Idle EXCEPT !.pc = "gotLog", !.ref = getLogRef]]
    /\ UNCHANGED <<chain, sweep, clientVars, backing, quota, storeVars, stateCache, mutexes, subscriptions,
                   task, ckpt, prn, sent>>

SecondCheckpointBuild(now) ==
    /\ overlap.ckpt.pc = "gotLog"
    /\ LET events == Deref(overlap.ckpt.ref) IN
       IF Len(events) = 0 THEN overlap' = [overlap EXCEPT !.ckpt = Idle]
       ELSE IF Rebuild(events) = None THEN overlap' = [overlap EXCEPT !.ckpt = Idle]
       ELSE IF events[Len(events)].body.type = "CHECKPOINT"
       THEN overlap' = [overlap EXCEPT !.ckpt = Idle]
       ELSE overlap' = [overlap EXCEPT !.ckpt =
                           [Idle EXCEPT !.pc = "signing",
                                        !.ev = Some(CheckpointEvent(events, Rebuild(events)[1], now))]]
    /\ UNCHANGED <<chain, sweep, clientVars, backing, storeVars, stateCache, mutexes, subscriptions, task,
                   ckpt, prn, sent, quota, work>>

SecondCheckpointWriteFails ==
    /\ backing = "level"
    /\ work.fail < quota.fail
    /\ work' = [work EXCEPT !.fail = @ + 1]
    /\ overlap' = [overlap EXCEPT !.ckpt = Idle]
    /\ UNCHANGED storeVars

SecondCheckpointAppend ==
    /\ overlap.ckpt.pc = "signing"
    /\ \/ /\ appendCall(overlap.ckpt.ev[1])
          /\ overlap' = [overlap EXCEPT !.ckpt.pc =
                                           IF backing = "memory" THEN "appended" ELSE "put1"]
          /\ UNCHANGED work
       \/ SecondCheckpointWriteFails
    /\ UNCHANGED <<chain, sweep, clientVars, backing, stateCache, mutexes, subscriptions, task, ckpt, prn,
                   sent, quota>>

SecondCheckpointPutHead ==
    /\ overlap.ckpt.pc = "put1"
    /\ \/ /\ LevelPutHead(overlap.ckpt.ev[1])
          /\ overlap' = [overlap EXCEPT !.ckpt.pc = "appended"]
          /\ UNCHANGED work
       \/ SecondCheckpointWriteFails
    /\ UNCHANGED <<chain, sweep, clientVars, backing, stateCache, mutexes, subscriptions, task, ckpt, prn,
                   sent, quota>>

SecondCheckpointBroadcast ==
    /\ overlap.ckpt.pc = "appended"
    /\ sent' = broadcast(sent, overlap.ckpt.ev[1])
    /\ overlap' = [overlap EXCEPT !.ckpt = Idle]
    /\ UNCHANGED <<chain, sweep, clientVars, backing, storeVars, stateCache, mutexes, subscriptions, task,
                   ckpt, prn, quota, work>>

SecondPruneStart(now) ==
    /\ prn.pc # "idle"
    /\ overlap.prn.pc = "idle"
    /\ work.prune < quota.prune
    /\ getGuildIds
    /\ work' = [work EXCEPT !.prune = @ + 1]
    /\ overlap' = [overlap EXCEPT !.prn =
                       [PruneIdle EXCEPT !.pc = "gotLog", !.ref = getLogRef, !.now = now]]
    /\ UNCHANGED <<chain, sweep, clientVars, backing, quota, storeVars, stateCache, mutexes, subscriptions,
                   task, ckpt, prn, sent>>

SecondPruneScan ==
    /\ overlap.prn.pc = "gotLog"
    /\ LET events == Deref(overlap.prn.ref)
           del == seqsToDelete(events, Rebuild(events)[1], overlap.prn.now)
       IN
       IF Len(events) = 0 THEN overlap' = [overlap EXCEPT !.prn = PruneIdle]
       ELSE IF Rebuild(events) = None THEN overlap' = [overlap EXCEPT !.prn = PruneIdle]
       ELSE IF del = <<>> THEN overlap' = [overlap EXCEPT !.prn = PruneIdle]
       ELSE overlap' = [overlap EXCEPT !.prn =
                           [PruneIdle EXCEPT !.pc = "deleting", !.del = del,
                                             !.now = overlap.prn.now]]
    /\ UNCHANGED <<chain, sweep, clientVars, backing, storeVars, stateCache, mutexes, subscriptions, task,
                   ckpt, prn, sent, quota, work>>

SecondPruneDelete ==
    /\ overlap.prn.pc = "deleting"
    /\ deleteEvent(Head(overlap.prn.del))
    /\ overlap' = [overlap EXCEPT !.prn = IF Tail(overlap.prn.del) = <<>> THEN PruneIdle
                                          ELSE [overlap.prn EXCEPT !.del = Tail(@)]]
    /\ UNCHANGED <<chain, sweep, clientVars, backing, stateCache, mutexes, subscriptions, task, ckpt, prn,
                   sent, quota, work>>

------------------------------------------------------------------------------
(* client.ts: CgpClient.  The file holds the class twice, lines 28-392 ("v1")
   and lines 425-957 ("v2"); net.version says which one the peers run.  The
   peers share no encrypted group key, so extractKey has no effect.  A frame
   is handled in one step: v1 handles it synchronously, v2 chains the handlers
   on messageQueue. *)

Peers == {"p1", "p2", "p3"}

Versions == {"v1", "v2"}

\* the socket of a connection that is not a peer of the mesh (a relay)
Outside == "relay"

MAX_SEEN_EVENTS == 1000
CLEANUP_THRESHOLD == 900
\* v1: if (this.seenEvents.size > 1000) delete the first 100 values
V1_MAX_SEEN == 1000
V1_EVICT == 100

NewClient == [state |-> None, seenEvents |-> <<>>, seenEventsQueue |-> <<>>, emitted |-> <<>>]

Pairs(edges) == {<<e[1], e[2]>> : e \in edges} \cup {<<e[2], e[1]>> : e \in edges}

\* connected meshes of the three peers: a line and a triangle
Meshes ==
    {Pairs({<<"p1", "p2">>, <<"p2", "p3">>}),
     Pairs({<<"p1", "p2">>, <<"p2", "p3">>, <<"p1", "p3">>})}

\* this.sockets of peer c: the open connections to its neighbours
sockets(c) == {n \in Peers : <<c, n>> \in DOMAIN links}

InitClients(meshes, versions, inboundQuota) ==
    /\ clients = [c \in Peers |-> NewClient]
    /\ \E mesh \in meshes : links = [l \in mesh |-> <<>>]
    /\ \E v \in versions :
          net = [version |-> v, published |-> 0, inbound |-> 0, quota |-> inboundQuota]

\* seenEvents.add(event.id) and the cleanup that follows it.  seenEvents is the
\* Set in insertion order.
SeenAdd(version, cl, id) ==
    IF version = "v2"
    THEN LET queue == Append(cl.seenEventsQueue, id)
             seen == Append(cl.seenEvents, id)
         IN IF Len(queue) > MAX_SEEN_EVENTS
            THEN LET toRemove == Len(queue) - CLEANUP_THRESHOLD
                     removed == {queue[i] : i \in 1..toRemove}
                 IN [cl EXCEPT !.seenEvents = SelectSeq(seen, LAMBDA x : x \notin removed),
                               !.seenEventsQueue = SubSeq(queue, toRemove + 1, Len(queue))]
            ELSE [cl EXCEPT !.seenEvents = seen, !.seenEventsQueue = queue]
    ELSE LET seen == Append(cl.seenEvents, id)
         IN IF Len(seen) > V1_MAX_SEEN
            THEN [cl EXCEPT !.seenEvents = SubSeq(seen, V1_EVICT + 1, Len(seen))]
            ELSE [cl EXCEPT !.seenEvents = seen]

\* an updateState that applies whatever the validator accepts, wherever it sits
\* in the chain
updateState_AnyPosition(version, state, event) ==
    IF state = None
    THEN IF event.body.type = "GUILD_CREATE"
         THEN [state |-> Some(createInitialState(event)), threw |-> FALSE]
         ELSE [state |-> state, threw |-> FALSE]
    ELSE IF validateEvent(state[1], event) # "" \/ applyEventThrows(state[1], event)
         THEN [state |-> state, threw |-> version = "v1"]
         ELSE [state |-> Some(applyEvent(state[1], event)), threw |-> FALSE]

\* updateState: the guild state afterwards, and whether the call threw (v1 has
\* no try around validateEvent and applyEvent, v2 catches and logs)
updateState(version, state, event) ==
    IF state = None
    THEN IF event.body.type = "GUILD_CREATE"
         THEN [state |-> Some(createInitialState(event)), threw |-> FALSE]
         ELSE [state |-> state, threw |-> FALSE]
    ELSE IF event.seq = state[1].headSeq + 1 /\ event.prevHash = state[1].headHash
    THEN IF validateEvent(state[1], event) # "" \/ applyEventThrows(state[1], event)
         THEN [state |-> state, threw |-> version = "v1"]
         ELSE [state |-> Some(applyEvent(state[1], event)), threw |-> FALSE]
    ELSE [state |-> state, threw |-> FALSE]

\* a peer that sends what it publishes and forwards nothing it receives
Gossip_OwnOnly(wires, c, from, event) ==
    [l \in DOMAIN wires |->
        IF l[1] = c /\ c = from THEN Append(wires[l], event) ELSE wires[l]]

\* the raw frame goes to every open socket of c other than the sender
Gossip(wires, c, from, event) ==
    [l \in DOMAIN wires |->
        IF l[1] = c /\ l[2] # from THEN Append(wires[l], event) ELSE wires[l]]

\* a handler that never looks at the signature
HandleEvent_Unverified(c, from, event, wires) ==
    LET cl == clients[c]
        seen == SeenAdd(net.version, cl, event.id)
        upd == updateState(net.version, cl.state, event)
    IN
    IF \E i \in 1..Len(cl.seenEvents) : cl.seenEvents[i] = event.id
    THEN clients' = clients /\ links' = wires
    ELSE IF upd.threw
    THEN clients' = [clients EXCEPT ![c] = seen] /\ links' = wires
    ELSE /\ clients' = [clients EXCEPT ![c] = [seen EXCEPT !.state = upd.state,
                                                          !.emitted = Append(@, event)]]
         /\ links' = Gossip(wires, c, from, event)

\* handleMessage, kind EVENT, received on socket `from`; `wires` are the links
\* once the frame is taken off
HandleEvent(c, from, event, wires) ==
    LET cl == clients[c]
        msgHash == hashObject(unsignedForSig(event.body, event.author, event.createdAt))
        seen == SeenAdd(net.version, cl, event.id)
        upd == updateState(net.version, cl.state, event)
    IN
    IF \E i \in 1..Len(cl.seenEvents) : cl.seenEvents[i] = event.id
    THEN clients' = clients /\ links' = wires
    ELSE IF ~verify(event.author, msgHash, event.signature)
    THEN clients' = [clients EXCEPT ![c] = seen] /\ links' = wires
    ELSE IF upd.threw
    THEN clients' = [clients EXCEPT ![c] = seen] /\ links' = wires
    ELSE /\ clients' = [clients EXCEPT ![c] = [seen EXCEPT !.state = upd.state,
                                                          !.emitted = Append(@, event)]]
         /\ links' = Gossip(wires, c, from, event)

\* a frame arrives from a neighbour
Deliver(from, c) ==
    /\ <<from, c>> \in DOMAIN links
    /\ links[<<from, c>>] # <<>>
    /\ HandleEvent(c, from, Head(links[<<from, c>>]),
                   [links EXCEPT ![<<from, c>>] = Tail(@)])
    /\ UNCHANGED <<net, relayVars>>

\* a frame arrives on a connection from outside the mesh
Inbound(c, event) ==
    /\ net.inbound < net.quota
    /\ net' = [net EXCEPT !.inbound = @ + 1]
    /\ HandleEvent(c, Outside, event, links)
    /\ UNCHANGED relayVars

\* publish(body) with no relay configured: the peer sequences the event on its
\* own head, applies it, emits it and sends it to every open socket
PeerEvent(state, payload) ==
    Sequenced(payload,
              IF state # None
              THEN Some([seq |-> state[1].headSeq, id |-> state[1].headHash])
              ELSE None)

PeerPublish(c, key, body, createdAt) ==
    /\ net.published < MaxMeshPublish
    /\ net' = [net EXCEPT !.published = @ + 1]
    /\ LET event == PeerEvent(clients[c].state, Signed(body, key, createdAt))
           upd == updateState(net.version, clients[c].state, event)
       IN IF upd.threw
          THEN UNCHANGED <<clients, links>>
          ELSE /\ clients' = [clients EXCEPT ![c].state = upd.state,
                                             ![c].emitted = Append(@, event)]
               /\ links' = Gossip(links, c, c, event)
    /\ UNCHANGED relayVars

------------------------------------------------------------------------------

IngestStep(socks, payloads) ==
    \/ \E s \in socks : RecvPublish(s)
    \/ \E s \in socks : ProcessGetLastEvent(s)
    \/ \E s \in socks, p \in payloads : ProcessSequence(s, p)
    \/ \E s \in socks : ProcessRebuild(s)
    \/ \E s \in socks : ProcessPutHead(s)
    \/ \E s \in socks : ProcessBroadcast(s)

SubStep(socks) ==
    \/ \E s \in socks, subId \in SubIds : RecvSub(s, subId)
    \/ \E s \in socks : SendSnapshot(s)

CheckpointStep(nows) ==
    \/ CheckpointStart
    \/ \E now \in nows : CheckpointBuild(now)
    \/ CheckpointAppend
    \/ CheckpointPutHead
    \/ CheckpointBroadcast

PruneStep(nows) ==
    \/ \E now \in nows : PruneStart(now)
    \/ PruneScan
    \/ PruneDelete

Backings == {"memory", "level"}

(* The relay with every kind of work.  A behaviour gets one of these amounts of
   inbound frames and timer runs: publishes with a prune, with a checkpoint, with
   a subscriber, or fewer publishes with all three. *)
Profiles ==
    {Budget(MaxPublish, 0, 0, 1, MaxWriteFail),
     Budget(MaxPublish - 1, 0, 1, 0, MaxWriteFail),
     Budget(MaxPublish - 1, 1, 0, 0, MaxWriteFail),
     Budget(MaxPublish - 2, 1, 1, 1, MaxWriteFail)}

Init == \E b \in Profiles : InitWith(Backings, b)

Next ==
    \/ IngestStep({"s1"}, CorePayloads)
    \/ SubStep({"s2"})
    \/ CheckpointStep(Nows)
    \/ PruneStep(Nows)

Spec == Init /\ [][Next]_vars

(* Ingest alone: PUBLISH frames of every kind on both sockets, no timers *)
InitIngest == InitWith(Backings, Budget(MaxIngest, 0, 0, 0, MaxWriteFail))

NextIngest == IngestStep(Sockets, Payloads)

SpecIngest == InitIngest /\ [][NextIngest]_vars

(* A client that publishes CHECKPOINT bodies of its own making, next to the
   relay's checkpoint timer.  The state the client vouches for names it owner. *)
ClientCheckpoint(user) ==
    LET state == serializeState(createInitialState(
                     Event(Null, 0, Null, 0, user, GuildCreate("public"), NoSig)))
    IN Checkpoint(1, hashObject(state), state)

ClientPayloads ==
    SignedPayloads({GuildCreate("public")} \cup {ClientCheckpoint(u) : u \in Targets})

InitClient == InitWith(Backings, Budget(MaxIngest, 0, 1, 0, MaxWriteFail))

NextClient == IngestStep({"s1"}, ClientPayloads) \/ CheckpointStep(Nows)

SpecClient == InitClient /\ [][NextClient]_vars

(* Retention: one author fills a guild whose channel is ttl or rolling-window
   with old and fresh messages, while the checkpoint and prune timers run.  The
   later clock value is more than RetentionDays past every createdAt. *)
RetentionDays == 1

PruneCreatedAts == {0, 4500}

PruneNows == {5000, 90000000}

PruneBodies ==
    {GuildCreate("public")}
    \cup {ChannelCreate(c, r) : c \in ChannelIds, r \in {"ttl", "rolling-window"}}
    \cup {Message(c) : c \in ChannelIds}

PrunePayloads == {Signed(b, "A", t) : b \in PruneBodies, t \in PruneCreatedAts}

InitPrune == InitWith(Backings, Budget(MaxPrunePublish, 0, 1, 1, 0))

NextPrune ==
    \/ IngestStep({"s1"}, PrunePayloads)
    \/ CheckpointStep(Nows)
    \/ PruneStep(PruneNows)

SpecPrune == InitPrune /\ [][NextPrune]_vars

(* A subscriber that ends its subscription while another socket publishes *)
UnsubStep(socks) == \E s \in socks, subId \in SubIds : RecvUnsub(s, subId)

SessionPayloads ==
    SignedPayloads({GuildCreate("public")} \cup {ChannelCreate(c, "ttl") : c \in ChannelIds})

InitSession == InitWith(Backings, Budget(MaxSessionPublish, 1, 0, 0, MaxWriteFail))

NextSession ==
    \/ IngestStep({"s1"}, SessionPayloads)
    \/ SubStep({"s2"})
    \/ UnsubStep({"s2"})

SpecSession == InitSession /\ [][NextSession]_vars

(* Both sockets publish for the guild while s2 subscribes.  Every store call
   returns or throws and the event loop runs every continuation that is ready,
   so an ingest that can take its next step takes it; whether another frame
   arrives is up to the clients. *)
IngestProgress ==
    \E s \in Sockets :
        \/ ProcessGetLastEvent(s)
        \/ \E p \in CorePayloads : ProcessSequence(s, p)
        \/ ProcessRebuild(s)
        \/ ProcessPutHead(s)
        \/ ProcessBroadcast(s)

InitLive == InitWith(Backings, Budget(MaxIngest, 1, 0, 0, MaxWriteFail))

NextLive == IngestStep(Sockets, CorePayloads) \/ SubStep({"s2"})

SpecLive == InitLive /\ [][NextLive]_vars /\ WF_vars(IngestProgress)

(* The relay with timer ticks that may find the call of the tick before still
   in progress. *)
MaxTimerPublish == 3

MaxTicks == 2

OverlapStep(ckNows, pruneNows) ==
    \/ SecondCheckpointStart
    \/ \E now \in ckNows : SecondCheckpointBuild(now)
    \/ SecondCheckpointAppend
    \/ SecondCheckpointPutHead
    \/ SecondCheckpointBroadcast
    \/ \E now \in pruneNows : SecondPruneStart(now)
    \/ SecondPruneScan
    \/ SecondPruneDelete

TimerPayloads ==
    {Signed(b, "A", 0) : b \in {GuildCreate("public")}
                              \cup {ChannelCreate(c, "ttl") : c \in ChannelIds}
                              \cup {Message(c) : c \in ChannelIds}}

InitTimers == InitWith(Backings, Budget(MaxTimerPublish, 0, MaxTicks, MaxTicks, 0))

NextTimers ==
    \/ IngestStep({"s1"}, TimerPayloads)
    \/ CheckpointStep(Nows)
    \/ PruneStep(Nows)
    \/ OverlapStep(Nows, Nows)

SpecTimers == InitTimers /\ [][NextTimers]_vars

(* createCheckpoints() and prune() over a store that holds two guilds.  The
   store's logs are given when the call starts: a sound log, a log with an
   expired MESSAGE, or a corrupt one whose first event is no GUILD_CREATE.  A
   call of the LevelStore may throw. *)
SweepGuilds == {"g", "h"}

MaxSweepFail == 1

InGuild(events, guild) ==
    [i \in 1..Len(events) |-> [events[i] EXCEPT !.body.guildId = guild]]

SweepLogs(guild) ==
    {InGuild(<<Sequenced(Signed(GuildCreate("public"), "A", 0), None)>>, guild),
     InGuild(<<Sequenced(Signed(Message("c1"), "A", 0), None)>>, guild),
     InGuild(LET e0 == Sequenced(Signed(GuildCreate("public"), "A", 0), None)
                 e1 == Sequenced(Signed(ChannelCreate("c1", "ttl"), "A", 0),
                                 Some([seq |-> e0.seq, id |-> e0.id]))
                 e2 == Sequenced(Signed(Message("c1"), "A", 0),
                                 Some([seq |-> e1.seq, id |-> e1.id]))
             IN <<e0, e1, e2>>, guild)}

\* const guilds = await this.store.getGuildIds()
SweepStart(kind, now) ==
    /\ sweep = <<>>
    /\ \E store \in [SweepGuilds -> UNION {SweepLogs(guild) : guild \in SweepGuilds}],
          order \in {<<"g", "h">>, <<"h", "g">>} :
          /\ \A guild \in SweepGuilds : store[guild] \in SweepLogs(guild)
          /\ sweep' = [kind |-> kind, pc |-> "getLog", todo |-> order, logs |-> store,
                       visited |-> {}, failed |-> {}, now |-> now, fails |-> 0]
    /\ UNCHANGED <<chain, overlap, clientVars, backing, logs, hasLog, seqIndex, db, stateCache,
                   mutexes, subscriptions, task, ckpt, prn, sent, quota, work>>

\* a store call for the guild throws: the for loop is left, the call rejects and
\* the timer's catch logs it
SweepThrows ==
    /\ backing = "level"
    /\ sweep.fails < MaxSweepFail
    /\ sweep' = [sweep EXCEPT !.pc = "idle", !.failed = {Head(sweep.todo)}, !.fails = @ + 1]

\* for (const guildId of guilds): const events = await this.store.getLog(guildId)
SweepGetLog ==
    /\ sweep # <<>>
    /\ sweep.pc = "getLog"
    /\ IF sweep.todo = <<>>
       THEN sweep' = [sweep EXCEPT !.pc = "idle"]
       ELSE \/ sweep' = [sweep EXCEPT !.pc = "gotLog"]
            \/ SweepThrows
    /\ UNCHANGED <<chain, overlap, clientVars, backing, logs, hasLog, seqIndex, db, stateCache,
                   mutexes, subscriptions, task, ckpt, prn, sent, quota, work>>

\* the guild's turn is over: continue, or the end of the loop body
SweepNext(store) ==
    [sweep EXCEPT !.pc = "getLog", !.logs = store, !.todo = Tail(@),
                  !.visited = @ \cup {Head(sweep.todo)}]

\* the loop body of createCheckpoints for one guild
SweepCheckpoint ==
    /\ sweep # <<>>
    /\ sweep.pc = "gotLog" /\ sweep.kind = "checkpoint"
    /\ LET guild == Head(sweep.todo)
           events == sweep.logs[guild]
       IN IF \/ Len(events) = 0
             \/ Rebuild(events) = None
             \/ events[Len(events)].body.type = "CHECKPOINT"
          THEN sweep' = SweepNext(sweep.logs)
          ELSE \/ sweep' = SweepNext(
                     [sweep.logs EXCEPT ![guild] =
                         Append(events,
                                [CheckpointEvent(events, Rebuild(events)[1], sweep.now)
                                   EXCEPT !.body.guildId = guild])])
               \/ SweepThrows
    /\ UNCHANGED <<chain, overlap, clientVars, backing, logs, hasLog, seqIndex, db, stateCache,
                   mutexes, subscriptions, task, ckpt, prn, sent, quota, work>>

\* the loop body of prune for one guild; deleteEvent may throw at any of its calls
SweepPrune ==
    /\ sweep # <<>>
    /\ sweep.pc = "gotLog" /\ sweep.kind = "prune"
    /\ LET guild == Head(sweep.todo)
           events == sweep.logs[guild]
       IN IF Len(events) = 0 \/ Rebuild(events) = None
          THEN sweep' = SweepNext(sweep.logs)
          ELSE LET del == seqsToDelete(events, Rebuild(events)[1], sweep.now)
                   gone == {del[i] : i \in 1..Len(del)}
               IN \/ sweep' = SweepNext(
                         [sweep.logs EXCEPT ![guild] =
                             SelectSeq(events, LAMBDA e : e.seq \notin gone)])
                  \/ del # <<>> /\ SweepThrows
    /\ UNCHANGED <<chain, overlap, clientVars, backing, logs, hasLog, seqIndex, db, stateCache,
                   mutexes, subscriptions, task, ckpt, prn, sent, quota, work>>

InitSweep == InitWith(Backings, Budget(0, 0, 0, 0, 0))

NextSweep ==
    \/ \E kind \in {"checkpoint", "prune"}, now \in Nows : SweepStart(kind, now)
    \/ SweepGetLog
    \/ SweepCheckpoint
    \/ SweepPrune

SpecSweep == InitSweep /\ [][NextSweep]_vars

------------------------------------------------------------------------------
(* server.ts: the socket's "message" handler on raw text.  A text is kept as
   what JSON.parse makes of it: no value at all, or a value of one JSON type
   with the items an array destructuring would draw from it. *)

MaxFrames == 3

RawText(type, items) == [type |-> type, items |-> items]

RawFrames ==
    { RawText("text", <<>>),                      \* THIS IS NOT JSON
      RawText("object", <<>>),                    \* {"kind": "HELLO"}
      RawText("number", <<>>),                    \* 42
      RawText("null", <<>>),                      \* null
      RawText("string", <<"H", "I">>),            \* "HI"
      RawText("array", <<>>),                     \* []
      RawText("array", <<"HELLO", "{}">>),        \* ["HELLO", {}]
      RawText("array", <<"NOPE", "{}">>) }        \* ["NOPE", {}]

\* JSON.parse(raw)
JSONparse(raw) ==
    IF raw.type = "text"
    THEN [threw |-> "SyntaxError", value |-> raw]
    ELSE [threw |-> "", value |-> raw]

\* const [kind, payload] = value: an array or a string is iterated, a missing
\* item is undefined, any other value is not iterable
Destructure(value) ==
    IF value.type \in {"array", "string"}
    THEN [threw |-> "",
          kind |-> IF Len(value.items) >= 1 THEN value.items[1] ELSE Undefined,
          payload |-> IF Len(value.items) >= 2 THEN value.items[2] ELSE Undefined]
    ELSE [threw |-> "TypeError", kind |-> Undefined, payload |-> Undefined]

HelloOkFrame ==
    [kind |-> "HELLO_OK", code |-> "", message |-> "", events |-> <<>>, endSeq |-> 0]

\* what the handler sends for one raw text whose kind is neither SUB nor PUBLISH
FrameReply(raw) ==
    LET parsed == JSONparse(raw)
        frame == Destructure(parsed.value)
    IN IF parsed.threw = "SyntaxError"
       THEN <<ErrorFrame("INVALID_FRAME", "Parse error")>>
       ELSE IF frame.threw # ""
       THEN <<ErrorFrame("INTERNAL_ERROR", "not iterable")>>
       ELSE IF frame.kind = "HELLO"
       THEN <<HelloOkFrame>>
       ELSE <<>>

\* socket.on("message"): the frame is handled once the socket's queue is free
RecvFrame(s, raw) ==
    /\ task[s].pc = "idle"
    /\ work.frames < MaxFrames
    /\ work' = [work EXCEPT !.frames = @ + 1]
    /\ sent' = [sent EXCEPT ![s] = @ \o FrameReply(raw)]
    /\ UNCHANGED <<chain, sweep, overlap, clientVars, backing, quota, storeVars, stateCache,
                   mutexes, subscriptions, task, ckpt, prn>>

InitFrames == InitWith(Backings, Budget(0, 1, 0, 0, 0))

NextFrames ==
    \/ \E s \in Sockets, raw \in RawFrames : RecvFrame(s, raw)
    \/ SubStep(Sockets)

SpecFrames == InitFrames /\ [][NextFrames]_vars

(* The two stores side by side: every append and deleteEvent call is made on
   the MemoryStore and on the LevelStore.  The calls are those of an engine:
   append of the event sequenced on the last event (as processEvent does on
   the MemoryStore), deleteEvent of the seq of a stored MESSAGE (as prune()). *)
MaxStoreAppend == 5
MaxStoreDelete == 2

StorePayloads(first) ==
    IF first THEN {Signed(GuildCreate("public"), "A", 0)}
    ELSE {Signed(b, "A", t) : b \in PruneBodies \ {GuildCreate("public")},
                              t \in PruneCreatedAts}

\* store.append(guild, event) on both stores, both puts of the LevelStore done
BothAppend(event) ==
    /\ work.publish < quota.publish
    /\ work' = [work EXCEPT !.publish = @ + 1]
    /\ logs' = Append(logs, event)
    /\ hasLog' = TRUE
    /\ seqIndex' = MemAppendIndex(logs, seqIndex, event)
    /\ db' = [ev |-> [q \in DOMAIN db.ev \cup {event.seq} |->
                         IF q = event.seq THEN event ELSE db.ev[q]],
              head |-> <<event.seq>>]
    /\ UNCHANGED <<chain, sweep, overlap, clientVars, backing, quota, stateCache, mutexes,
                   subscriptions, task, ckpt, prn, sent>>

\* store.deleteEvent(guild, seq) on both stores
BothDelete(seq) ==
    /\ work.prune < quota.prune
    /\ work' = [work EXCEPT !.prune = @ + 1]
    /\ hasLog
    /\ Rebuild(logs) # None
    /\ \E i \in 1..Len(logs), now \in PruneNows :
           logs[i].seq = seq /\ Expired(Rebuild(logs)[1], logs[i], now)
    /\ LET i == MemDeleteIndex(logs, seqIndex, seq)
       IN /\ logs' = RemoveAt(logs, i)
          /\ seqIndex' = rebuildGuildIndex(RemoveAt(logs, i))
    /\ db' = [db EXCEPT !.ev = [q \in DOMAIN db.ev \ {seq} |-> db.ev[q]]]
    /\ UNCHANGED <<chain, sweep, overlap, clientVars, backing, quota, stateCache, mutexes,
                   subscriptions, task, ckpt, prn, sent, hasLog>>

InitStores == InitWith({"memory"}, Budget(MaxStoreAppend, 0, 0, MaxStoreDelete, 0))

\* the events processEvent appends: the first a GUILD_CREATE, a later one
\* accepted by validateEvent on the fold of the log
Appendable(event) ==
    MemGetLastEvent # None =>
        /\ Rebuild(MemGetLog) # None
        /\ validateEvent(Rebuild(MemGetLog)[1], event) = ""
        /\ ~applyEventThrows(Rebuild(MemGetLog)[1], event)

AppendStep ==
    \E p \in StorePayloads(MemGetLastEvent = None) :
        /\ Appendable(Sequenced(p, MemGetLastEvent))
        /\ BothAppend(Sequenced(p, MemGetLastEvent))

NextStores == AppendStep \/ \E seq \in 0..MaxStoreAppend : BothDelete(seq)

SpecStores == InitStores /\ [][NextStores]_vars

(* log.ts: validateChain on lists of up to MaxChain events, each list one
   event longer than the one before.  Each event is built on the one before
   it: a signed event whose id is the hash of its five fields, or the same
   with one thing changed. *)
MaxChain == 3

\* the id validateChain recomputes
FiveFieldId(ev) ==
    computeEventId([seq |-> ev.seq, prevHash |-> ev.prevHash, createdAt |-> ev.createdAt,
                    author |-> ev.author, body |-> ev.body])

ChainEvent(p, seq, prevHash) ==
    LET ev == Event(<<>>, seq, prevHash, p.createdAt, p.author, p.body, p.signature)
    IN [ev EXCEPT !.id = FiveFieldId(ev)]

ChainBody(i) ==
    IF i = 0 THEN GuildCreate("public")
    ELSE IF i = 1 THEN ChannelCreate("c1", "ttl")
    ELSE Message("c1")

OtherGuild(body) == [body EXCEPT !.guildId = "h"]

\* the events that can follow `events`
NextChainEvents(events) ==
    LET i == Len(events)
        prev == IF i = 0 THEN Null ELSE events[i].id
        body == ChainBody(i)
    IN { ChainEvent(Signed(body, "A", 0), i, prev),
         ChainEvent(Forged(body, "A", 0), i, prev),
         ChainEvent(Signed(OtherGuild(body), "A", 0), i, prev),
         ChainEvent(Signed(body, "A", 0), i + 1, prev),
         ChainEvent(Signed(body, "A", 0), i,
                    ChainEvent(Signed(body, "A", 0), i + 1, prev).id),
         Sequenced(Signed(body, "A", 0),
                   IF i = 0 THEN None ELSE Some([seq |-> i - 1, id |-> prev])) }

\* the argument of the next call: the empty list first, then the list of the
\* call before with one more event, up to MaxChain events
ChainInputs ==
    IF chain = <<>> THEN {<<>>}
    ELSE IF Len(chain.events) >= MaxChain THEN {}
    ELSE {Append(chain.events, ev) : ev \in NextChainEvents(chain.events)}

ValidateChain(events) ==
    /\ chain' = [events |-> events, returned |-> validateChain(events)]
    /\ UNCHANGED <<sweep, overlap, clientVars, backing, storeVars, stateCache, mutexes,
                   subscriptions, task, ckpt, prn, sent, quota, work>>

InitChain == InitWith({"memory"}, Budget(0, 0, 0, 0, 0))

NextChain == \E events \in ChainInputs : ValidateChain(events)

SpecChain == InitChain /\ [][NextChain]_vars

(* A mesh of peers without a relay: p1, holding key A, publishes; every peer
   forwards what it receives.  Links deliver reliably and in order, and a
   frame in flight is eventually handled. *)
RelayOff == RelayInit({"memory"}, Budget(0, 0, 0, 0, 0))

MeshBodies ==
    {GuildCreate("public")}
    \cup {ChannelCreate(c, "ttl") : c \in ChannelIds}
    \cup {Message(c) : c \in ChannelIds}

DeliverStep == \E from \in Peers, c \in Peers : Deliver(from, c)

InitMesh == RelayOff /\ InitClients(Meshes, Versions, 0)

NextMesh ==
    \/ \E body \in MeshBodies, t \in CreatedAts : PeerPublish("p1", "A", body, t)
    \/ DeliverStep

SpecMesh == InitMesh /\ [][NextMesh]_vars /\ WF_vars(DeliverStep)

\* frames from a relay connection reach the middle peer p2: a guild's first three
\* events, the same with a signature of another key, an event that the
\* validator refuses (a MESSAGE before its channel) and a fork (seq 1 on another
\* genesis).  Taken in any order they also give gaps and duplicates.
MaxInbound == 3

After(event) == Some([seq |-> event.seq, id |-> event.id])

Genesis == Sequenced(Signed(GuildCreate("public"), "A", 0), None)

ForgedGenesis == Sequenced(Forged(GuildCreate("public"), "A", 0), None)

SecondEvent == Sequenced(Signed(ChannelCreate("c1", "ttl"), "A", 0), After(Genesis))

ThirdEvent == Sequenced(Signed(Message("c1"), "A", 0), After(SecondEvent))

InboundEvents ==
    {Genesis, ForgedGenesis, SecondEvent, ThirdEvent,
     Sequenced(Forged(ChannelCreate("c1", "ttl"), "A", 0), After(Genesis)),
     Sequenced(Signed(Message("c1"), "A", 0), After(Genesis)),
     Sequenced(Signed(ChannelCreate("c1", "ttl"), "A", 0), After(ForgedGenesis))}

InboundStep == \E event \in InboundEvents : Inbound("p2", event)

InitInbound == RelayOff /\ InitClients(Meshes, Versions, MaxInbound)

NextInbound == InboundStep \/ DeliverStep

SpecInbound == InitInbound /\ [][NextInbound]_vars

(* A relay connection that feeds p2 EVENT and SNAPSHOT frames: the guild's
   first events, a frame with another key's signature that carries the id of
   the genuine genesis, and the snapshots a SUB can be answered with (the
   history at three lengths, a history that forks at seq 1, none). *)
MaxFeed == 3

ForkEvent == Sequenced(Signed(Message("c1"), "A", 0), After(Genesis))

ForgedSameId == [ForgedGenesis EXCEPT !.id = Genesis.id]

FeedEvents == {Genesis, SecondEvent, ForgedSameId}

FeedSnapshots ==
    {<<>>, <<Genesis>>, <<Genesis, SecondEvent>>, <<Genesis, SecondEvent, ThirdEvent>>,
     <<Genesis, ForkEvent>>}

\* handleMessage, kind SNAPSHOT: the events are folded without a look at the
\* state the client holds, at seenEvents or at a signature; a fold that throws
\* ends the handler in its catch
HandleSnapshot(c, events) ==
    IF Len(events) > 0
    THEN IF Rebuild(events) = None
         THEN UNCHANGED clients
         ELSE clients' = [clients EXCEPT ![c].state = Rebuild(events),
                                         ![c].emitted = @ \o events]
    ELSE UNCHANGED clients

Snapshot(c, events) ==
    /\ net.inbound < net.quota
    /\ net' = [net EXCEPT !.inbound = @ + 1]
    /\ HandleSnapshot(c, events)
    /\ UNCHANGED <<links, relayVars>>

InitFeed == RelayOff /\ InitClients(Meshes, Versions, MaxFeed)

NextFeed ==
    \/ \E event \in FeedEvents : Inbound("p2", event)
    \/ \E events \in FeedSnapshots : Snapshot("p2", events)
    \/ DeliverStep

SpecFeed == InitFeed /\ [][NextFeed]_vars

\* a long stream of frames with fresh ids into p2.  The handler takes event.id
\* as the frame gives it and never computes it, so the n-th frame carries the
\* hash of n as its id.  The frames carry a signature of another key: both
\* classes remember the id before they verify, and nothing else of the client
\* moves.
MaxSeenFrames == 1102

SeenFrame(n) ==
    [Sequenced(Forged(Message("c1"), "A", 0), None) EXCEPT !.id = hashObject(n)]

SeenStep == Inbound("p2", SeenFrame(net.inbound))

InitSeen == RelayOff /\ InitClients(Meshes, Versions, MaxSeenFrames)

NextSeen == SeenStep

SpecSeen == InitSeen /\ [][NextSeen]_vars

------------------------------------------------------------------------------
(* Properties *)

ErrorCodes(s) == {sent[s][i].code : i \in 1..Len(sent[s])}

SamePayload(e, f) ==
    /\ e.body = f.body
    /\ e.author = f.author
    /\ e.createdAt = f.createdAt
    /\ e.signature = f.signature

\* the signature of a stored event verifies against its author
SignatureVerifies(e) ==
    verify(e.author, hashObject(unsignedForSig(e.body, e.author, e.createdAt)), e.signature)

\* the state folded from the events before position i of log
StateBefore(log, i) == Rebuild(SubSeq(log, 1, i - 1))

\* no ingest is between its store write and its return
NoIngestInFlight == \A s \in Sockets : task[s].pc \notin {"put1", "appended"}

\* C1: with concurrent PUBLISH frames on both sockets and no prune or checkpoint,
\* the stored log holds the seqs 0, 1, 2, ... in order without gap or repeat, all
\* ids differ (a replayed frame is a new event with its own seq and id), an event
\* that was written is stored exactly once, and when no write failed the log has
\* exactly one event per accepted publish: seqs 0 .. N-1 for N accepted.
C1_AppendedOnceDense ==
    LET log == getLog IN
    /\ \A i \in 1..Len(log) : log[i].seq = i - 1
    /\ \A i, j \in 1..Len(log) : i # j => log[i].id # log[j].id
    /\ \A s \in Sockets : task[s].pc = "appended" =>
           Cardinality({i \in 1..Len(log) : log[i] = task[s].ev[1]}) = 1
    /\ (work.fail = 0 /\ NoIngestInFlight) => Len(log) = work.accepted

\* three publishes accepted, the last two the same frame sent twice
C1_Witness ==
    LET log == getLog IN
    /\ work.accepted = 3
    /\ Len(log) = 3
    /\ SamePayload(log[2], log[3])
    /\ log[2].id # log[3].id
    /\ log[2].seq = 1 /\ log[3].seq = 2

\* C2: while no prune has run, under any interleaving of PUBLISH ingests and
\* createCheckpoints the stored log has seq 0, 1, 2, ..., events[0].prevHash is
\* null, every later prevHash is the id of the event before it, and an event a
\* publish has stored is still stored when the publish returns (no checkpoint
\* took its seq or its place).
C2_ChainUnderCheckpoints ==
    work.prune = 0 =>
        LET log == getLog IN
        /\ \A i \in 1..Len(log) : log[i].seq = i - 1
        /\ Len(log) > 0 => log[1].prevHash = Null
        /\ \A i \in 2..Len(log) : log[i].prevHash = log[i - 1].id
        /\ \A s \in Sockets : task[s].pc = "appended" =>
               \E i \in 1..Len(log) : log[i] = task[s].ev[1]

\* C3: every stored event's signature verifies against its author over
\* {body, author, createdAt}, and a PUBLISH with any other signature is answered
\* with ERROR INVALID_SIGNATURE to the publisher alone and stores nothing.
C3_SignatureGate ==
    /\ [](\A i \in 1..Len(getLog) : SignatureVerifies(getLog[i]))
    /\ [][\A s \in Sockets, p \in BadPayloads(Bodies) :
            ProcessSequence(s, p) =>
                /\ sent' = Send(sent, s, ErrorFrame("INVALID_SIGNATURE",
                                                    "Signature verification failed"))
                /\ getLog' = getLog]_vars

\* a publish was stored and another was refused for its signature
C3_Witness ==
    /\ Len(getLog) >= 1
    /\ \E s \in Sockets : "INVALID_SIGNATURE" \in ErrorCodes(s)

\* C4: after any publishes, failed appends, checkpoints and prunes, the author of
\* every stored event of a privileged type is the owner or holds the owner or
\* admin role in the state folded from the events stored before it.
C4_PrivilegedAuthorised ==
    LET log == getLog IN
    \A i \in 1..Len(log) : log[i].body.type \in PrivilegedTypes =>
        /\ i > 1
        /\ StateBefore(log, i) # None
        /\ hasPermission(StateBefore(log, i)[1], log[i].author)

\* C5: while no store write has failed, every stored MESSAGE names a channel
\* known to the state folded from the events stored before it, its author is not
\* banned in that state, and in a private guild its author is a member.
C5_MessageAdmissible ==
    work.fail = 0 =>
        LET log == getLog IN
        \A i \in 1..Len(log) : log[i].body.type = "MESSAGE" =>
            /\ i > 1
            /\ StateBefore(log, i) # None
            /\ LET state == StateBefore(log, i)[1] IN
               /\ MapHas(state.channels, log[i].body.channelId)
               /\ ~MapHas(state.bans, log[i].author)
               /\ state.access = "private" => MapHas(state.members, log[i].author)

\* the step in which the ingest of socket s ends without a store write
Rejected(s) ==
    /\ task[s].pc \in {"gotLast", "gotLog"}
    /\ task'[s].pc = "idle"
    /\ work' = work

\* the stored log, the subscribers and every other socket are left alone, and
\* the publisher gets one ERROR frame
RejectedQuietly(s) ==
    /\ getLog' = getLog
    /\ Len(sent'[s]) = Len(sent[s]) + 1
    /\ sent' = Send(sent, s, sent'[s][Len(sent'[s])])
    /\ sent'[s][Len(sent'[s])].kind = "ERROR"
    /\ sent'[s][Len(sent'[s])].code \in {"INVALID_SIGNATURE", "VALIDATION_FAILED"}

\* a permission failure is reported as VALIDATION_FAILED, "... permission ..."
PermissionReported(s) ==
    LET frame == sent'[s][Len(sent'[s])]
        denied == ErrorFrame("VALIDATION_FAILED", "permission")
    IN
    /\ \A p \in SignedPayloads(CoreBodies) :
          ( /\ ProcessSequence(s, p)
            /\ Sequenced(p, task[s].ev).seq > 0
            /\ p.body.type \in PrivilegedTypes
            /\ stateCache # None
            /\ ~hasPermission(stateCache[1], p.author) ) => frame = denied
    /\ ( /\ ProcessRebuild(s)
         /\ task[s].ev[1].body.type \in PrivilegedTypes
         /\ ~hasPermission(Rebuild(Deref(task[s].ref))[1], task[s].ev[1].author) )
       => frame = denied

StoredOwner == IF getLog = <<>> \/ Rebuild(getLog) = None THEN None
               ELSE Some(Rebuild(getLog)[1].ownerId)

CachedOwner == IF stateCache = None THEN None ELSE Some(stateCache[1].ownerId)

\* the author of the genesis event the store holds
GenesisAuthor == IF getLog = <<>> THEN None ELSE Some(getLog[1].author)

\* C7: while no store write has failed, the state rebuilt from the store has the
\* author of the stored genesis event as its ownerId, and that author and the
\* ownerId of the cached state, once set, never change, whatever PUBLISH, prune
\* and checkpoint steps follow, on either store.
C7_OwnerPermanent ==
    /\ [](work.fail = 0 => StoredOwner = GenesisAuthor)
    /\ [][work'.fail = 0 =>
            /\ (CachedOwner # None /\ CachedOwner' # None) => CachedOwner' = CachedOwner
            /\ (GenesisAuthor # None /\ GenesisAuthor' # None) =>
                   GenesisAuthor' = GenesisAuthor]_vars

\* C8: a stored event has seq 0 exactly when it is a GUILD_CREATE.
C8_GenesisOnlyAtZero ==
    \A i \in 1..Len(getLog) :
        (getLog[i].seq = 0) <=> (getLog[i].body.type = "GUILD_CREATE")

\* the frames of a subscription, in the order they were sent
Stream(s) == SelectSeq(sent[s], LAMBDA f : f.kind \in {"SNAPSHOT", "EVENT"})

\* C9: on the LevelStore, while no write has failed, what a subscribing socket is
\* sent is one SNAPSHOT first and then EVENT frames with strictly ascending seq,
\* none of them an event of the SNAPSHOT.
C9_SnapshotThenAscending ==
    \A s \in Sockets :
        LET stream == Stream(s) IN
        (backing = "level" /\ work.fail = 0 /\ Len(stream) > 0) =>
            /\ stream[1].kind = "SNAPSHOT"
            /\ \A i \in 2..Len(stream) : stream[i].kind = "EVENT"
            /\ \A i, j \in 2..Len(stream) :
                   i < j => stream[i].events[1].seq < stream[j].events[1].seq
            /\ \A i \in 2..Len(stream), k \in 1..Len(stream[1].events) :
                   stream[i].events[1].seq # stream[1].events[k].seq

\* the events of a stream: those of the SNAPSHOT, then the live ones
StreamEvents(stream) ==
    stream[1].events \o [i \in 1..(Len(stream) - 1) |-> stream[i + 1].events[1]]

\* a SNAPSHOT followed by live EVENTs that continue its sequence without a gap
GapFree(stream) ==
    /\ Len(stream) > 0
    /\ stream[1].kind = "SNAPSHOT"
    /\ \A i \in 2..Len(stream) : stream[i].kind = "EVENT"
    /\ Len(stream[1].events) > 0
    /\ LET events == StreamEvents(stream) IN
       \A i \in 2..Len(events) : events[i].seq = events[i - 1].seq + 1

\* C10: while no prune has run and no store write has failed, a subscriber that
\* received a SNAPSHOT and then K live events continuing it without a gap folds
\* them to the state folded from the stored log up to the last of those events.
C10_SubscriberStateMatchesLog ==
    (work.prune = 0 /\ work.fail = 0) =>
        \A s \in Sockets :
            GapFree(Stream(s)) =>
                LET events == StreamEvents(Stream(s))
                    last == events[Len(events)].seq
                    stored == SelectSeq(getLog, LAMBDA e : e.seq <= last)
                IN /\ stored # <<>>
                   /\ Rebuild(events) = Rebuild(stored)

\* the events of the live EVENT frames of a stream that opens with a SNAPSHOT
LiveEvents(stream) == [i \in 1..(Len(stream) - 1) |-> stream[i + 1].events[1]]

\* C11: on the LevelStore, while no write has failed, a socket that subscribed
\* before an event e1 was stored (its SNAPSHOT comes first and does not hold e1)
\* is never sent an event e2 that was sequenced on top of e1 (e2.prevHash is the
\* id of e1, so e1 was appended first) before it is sent e1.
C11_BroadcastInAppendOrder ==
    (backing = "level" /\ work.fail = 0) =>
        \A s \in Sockets :
            LET stream == Stream(s) IN
            (Len(stream) > 0 /\ stream[1].kind = "SNAPSHOT"
                /\ \A i \in 2..Len(stream) : stream[i].kind = "EVENT") =>
                LET live == LiveEvents(stream) IN
                \A i, j \in 1..Len(live) :
                    (i < j /\ live[i].prevHash = live[j].id) =>
                        \E k \in 1..Len(stream[1].events) :
                            stream[1].events[k] = live[j]

\* the events of a log whose seq is below n, in log order
Below(log, n) == SelectSeq(log, LAMBDA e : e.seq < n)

\* rootHash and body.seq of a CHECKPOINT event agree with a log
RootMatches(log, ev) ==
    /\ ev.body.ckpt[1] = ev.seq
    /\ Len(Below(log, ev.seq)) > 0
    /\ Rebuild(Below(log, ev.seq)) # None
    /\ ev.body.ckpt[2] = hashObject(serializeState(Rebuild(Below(log, ev.seq))[1]))

\* C12: when createCheckpoints appends its CHECKPOINT event at seq n, the
\* event's body.seq is n and its rootHash is the hash of the serialized state
\* folded from the events with seq < n of the log as it stands at that moment.
C12_RootHashOfPrefix ==
    [][CheckpointAppend => RootMatches(getLog, ckpt.ev[1])]_vars

\* C13: every CHECKPOINT event in the log is authored by the relay key and its
\* rootHash is the hash of its state field; hence no CHECKPOINT whose body a
\* client submitted with PUBLISH is in the log.
C13_CheckpointsAreTheRelays ==
    \A i \in 1..Len(getLog) :
        getLog[i].body.type = "CHECKPOINT" =>
            /\ getLog[i].author = RelayKey
            /\ getLog[i].body.ckpt[2] = hashObject(getLog[i].body.ckpt[3])

\* the step with which a prune() run returns
PruneCompletes == prn.pc # "idle" /\ prn'.pc = "idle"

\* the retention state of the stored log
Retention == Rebuild(getLog)[1]

\* C14: on the MemoryStore, when a prune() run that took its clock value T
\* returns, the store holds no MESSAGE of a ttl channel with seconds S whose
\* createdAt is below T - S * 1000 (createdAt 0 included).
C14_PruneLeavesNoExpired ==
    [][(PruneCompletes /\ backing = "memory" /\ Len(getLog) > 0 /\ Rebuild(getLog) # None) =>
          \A i \in 1..Len(getLog') : ~Expired(Retention, getLog'[i], prn.now)]_vars

\* C15: a deleteEvent of prune() removes nothing but a MESSAGE that is expired
\* under the retention of its channel: every other stored event (not a
\* MESSAGE, or in a channel without ttl, or not yet old enough) is still
\* stored after the step.
C15_PruneRemovesOnlyExpired ==
    [][(PruneDelete /\ Len(getLog) > 0 /\ Rebuild(getLog) # None) =>
          \A i \in 1..Len(getLog) :
              ~Expired(Retention, getLog[i], prn.now) =>
                  \E j \in 1..Len(getLog') : getLog'[j] = getLog[i]]_vars

\* a MESSAGE of a rolling-window channel that is older than the window
OutsideWindow(state, event, now) ==
    /\ event.body.type = "MESSAGE"
    /\ MapHas(state.channels, event.body.channelId)
    /\ MapGet(state.channels, event.body.channelId).retention = "rolling-window"
    /\ now - event.createdAt > RetentionDays * 24 * 60 * 60 * 1000

\* C16: when a prune() run that took its clock value T returns, the store
\* holds no MESSAGE of a rolling-window channel with days D whose createdAt is
\* more than D days before T, as it holds none older than seconds in a ttl
\* channel.
C16_RollingWindowPruned ==
    [][(PruneCompletes /\ work.ck = 0 /\ Len(getLog) > 0 /\ Rebuild(getLog) # None) =>
          \A i \in 1..Len(getLog') : ~OutsideWindow(Retention, getLog'[i], prn.now)]_vars

\* C17: while no write has failed and prune has not run, validateChain
\* returns true on the stored log.
C17_LogValidates ==
    (work.fail = 0 /\ work.prune = 0) => validateChain(getLog)

\* the five fields of an event that its id is specified to cover
Unsigned(ev) ==
    [seq |-> ev.seq, prevHash |-> ev.prevHash, createdAt |-> ev.createdAt,
     author |-> ev.author, body |-> ev.body]

\* the id the relay gives an event with these fields and this signature
IdAsAssigned(ev, signature) ==
    computeEventId(Event(Null, ev.seq, ev.prevHash, ev.createdAt, ev.author, ev.body,
                         signature))

\* C18: the id of every stored event is the hash of exactly its seq, prevHash,
\* createdAt, author and body, and the id the relay assigns does not vary with
\* the signature the event carries.
C18_IdCoversFiveFields ==
    \A i \in 1..Len(getLog) :
        /\ getLog[i].id = hashObject(Unsigned(getLog[i]))
        /\ IdAsAssigned(getLog[i], getLog[i].signature) = IdAsAssigned(getLog[i], NoSig)

\* C19: the step that completes a successful PUBLISH of socket s (the event is
\* stored and broadcast) sends an EVENT frame with the full event to s itself,
\* whether or not s holds a subscription.
C19_PublisherGetsEvent ==
    [][\A s \in Sockets :
          ProcessBroadcast(s) =>
              \E i \in (Len(sent[s]) + 1)..Len(sent'[s]) :
                  sent'[s][i] = EventFrame(task[s].ev[1])]_vars

\* C20: once a socket has sent UNSUB{subId} for its subscription (and no SUB
\* since), no step sends it a further EVENT frame.
C20_NoEventAfterUnsub ==
    [][\A s \in Sockets, subId \in SubIds :
          (<<s, subId>> \in work.unsub /\ <<s, subId>> \in work'.unsub) =>
              \A i \in (Len(sent[s]) + 1)..Len(sent'[s]) : sent'[s][i].kind # "EVENT"]_vars

\* the step in which the store's append throws during the ingest of socket s
AppendFails(s) ==
    /\ task[s].pc \in {"gotLast", "gotLog", "put1"}
    /\ task'[s].pc = "idle"
    /\ work'.fail = work.fail + 1

\* C21: when the store's append fails during the ingest of a PUBLISH, the
\* publisher is sent ERROR INTERNAL_ERROR, no other socket is sent anything,
\* and the event is not in the guild log afterwards.
C21_FailedAppendStoresNothing ==
    [][\A s \in Sockets :
          AppendFails(s) =>
              /\ Len(sent'[s]) = Len(sent[s]) + 1
              /\ sent'[s][Len(sent'[s])].kind = "ERROR"
              /\ sent'[s][Len(sent'[s])].code = "INTERNAL_ERROR"
              /\ \A t \in Sockets \ {s} : sent'[t] = sent[t]
              /\ (task[s].pc = "put1" =>
                     \A i \in 1..Len(getLog') : getLog'[i] # task[s].ev[1])]_vars

\* no frame is in flight between peers
Quiescent == \A l \in DOMAIN links : links[l] = <<>>

\* head of the guild at a peer: <<>> or <<headSeq, headHash>>
HeadOf(c) ==
    IF clients[c].state = None THEN <<>>
    ELSE <<clients[c].state[1].headSeq, clients[c].state[1].headHash>>

\* C25: in a connected mesh where p1 alone publishes, whenever no frame is in
\* flight every peer's head of the guild (headSeq, headHash) is that of the
\* publisher, and the mesh always reaches such a state for good.
C25_GossipConverges ==
    /\ [](Quiescent => \A c \in Peers : HeadOf(c) = HeadOf("p1"))
    /\ <>[]Quiescent

\* three events were published, applied by every peer, and nothing is in flight
C25_Witness ==
    /\ Quiescent
    /\ net.published = MaxMeshPublish
    /\ \A c \in Peers : clients[c].state # None /\ clients[c].state[1].headSeq = 2


\* the signature check of the client's handler on a frame
BadSignature(event) ==
    ~verify(event.author,
            hashObject(unsignedForSig(event.body, event.author, event.createdAt)),
            event.signature)

\* the frame the step takes off a link, if it is a delivery
Delivered(from, c) ==
    /\ <<from, c>> \in DOMAIN links
    /\ links[<<from, c>>] # <<>>
    /\ links'[<<from, c>>] = Tail(links[<<from, c>>])

\* nothing is put on a link
NothingSent == \A l \in DOMAIN links : Len(links'[l]) <= Len(links[l])

\* C22: a client that receives an EVENT frame whose signature does not verify
\* drops it: no guild state changes, no "event" is emitted and the frame is
\* forwarded to no peer.
C22_BadSignatureDropped ==
    [][/\ \A event \in InboundEvents :
             (Inbound("p2", event) /\ BadSignature(event)) =>
                 /\ \A c \in Peers : clients'[c].state = clients[c].state
                 /\ \A c \in Peers : clients'[c].emitted = clients[c].emitted
                 /\ NothingSent
        /\ \A from \in Peers, c \in Peers :
             (Delivered(from, c) /\ BadSignature(Head(links[<<from, c>>]))) =>
                 /\ \A d \in Peers : clients'[d].state = clients[d].state
                 /\ \A d \in Peers : clients'[d].emitted = clients[d].emitted
                 /\ NothingSent]_vars

\* a forged frame was handled for the first time (its id is remembered) by a
\* peer that tracks the guild, and nothing came of it
C22_Witness ==
    /\ clients["p2"].state # None
    /\ \E i \in 1..Len(clients["p2"].seenEvents) :
          \E event \in InboundEvents :
             /\ BadSignature(event)
             /\ event.seq = 1
             /\ clients["p2"].seenEvents[i] = event.id
    /\ \A i \in 1..Len(clients["p2"].emitted) : ~BadSignature(clients["p2"].emitted[i])


\* the step is peer c handling the EVENT frame `event`
Handled(c, event) ==
    \/ c = "p2" /\ Inbound(c, event)
    \/ \E from \in Peers : Delivered(from, c) /\ Head(links[<<from, c>>]) = event

InOrder(state, event) ==
    event.seq = state.headSeq + 1 /\ event.prevHash = state.headHash

Fresh(c, event) ==
    \A i \in 1..Len(clients[c].seenEvents) : clients[c].seenEvents[i] # event.id

\* C23: for a guild the client tracks, an EVENT frame that is not the next one
\* of the chain (seq = headSeq + 1 and prevHash = headHash), or that the validator
\* refuses, leaves the guild's state as it was; when the state changes it becomes
\* applyEvent(state, event); and a verified new frame that is the next one and
\* that the validator accepts is applied.
C23_AppliedOnlyInOrder ==
    [][\A c \in Peers, event \in InboundEvents :
          (clients[c].state # None /\ Handled(c, event)) =>
              LET state == clients[c].state[1] IN
              /\ (~InOrder(state, event) \/ validateEvent(state, event) # "") =>
                     clients'[c].state = clients[c].state
              /\ clients'[c].state # clients[c].state =>
                     clients'[c].state = Some(applyEvent(state, event))
              /\ (/\ Fresh(c, event)
                  /\ ~BadSignature(event)
                  /\ InOrder(state, event)
                  /\ validateEvent(state, event) = "") =>
                     clients'[c].state = Some(applyEvent(state, event))]_vars

\* p2 applied the first two events and has handled, and left aside, the event
\* with seq 1 that hangs on another genesis
C23_Witness ==
    /\ clients["p2"].state = Some(applyEvent(createInitialState(Genesis), SecondEvent))
    /\ \E i \in 1..Len(clients["p2"].seenEvents) : \E event \in InboundEvents :
          /\ event.seq = 1
          /\ event.prevHash = ForgedGenesis.id
          /\ ~BadSignature(event)
          /\ clients["p2"].seenEvents[i] = event.id


\* C24: the client's set of seen ids never holds more than 1000 ids after an
\* EVENT frame, and the insertion that takes it past 1000 leaves the 900 newest
\* ids, in their order of arrival.
C24_SeenEvictsTo900 ==
    [][\A c \in Peers :
          LET old == clients[c].seenEvents
              new == clients'[c].seenEvents
          IN /\ Len(new) <= MAX_SEEN_EVENTS
             /\ (Len(old) = MAX_SEEN_EVENTS /\ new # old) =>
                    /\ Len(new) = CLEANUP_THRESHOLD
                    /\ SubSeq(new, 1, CLEANUP_THRESHOLD - 1)
                         = SubSeq(old, MAX_SEEN_EVENTS - CLEANUP_THRESHOLD + 2,
                                  MAX_SEEN_EVENTS)]_vars

\* the log up to and including its i-th event
UpTo(log, i) == SubSeq(log, 1, i)

\* the state a reader seeds from the CHECKPOINT event c, as the repository's one
\* caller of deserializeState does
Seeded(c) == deserializeState(c.body.ckpt[3], c.seq, c.id, c.createdAt)

\* C26: for every CHECKPOINT event written by createCheckpoints, the state seeded
\* by deserializeState from its body equals the fold of the log up to that event
\* in guildId, description, ownerId, access, createdAt, channels, roles, members
\* (with their role sets) and bans.
C26_CheckpointRoundTrip ==
    LET log == getLog IN
    \A i \in 1..Len(log) :
        (log[i].body.type = "CHECKPOINT" /\ log[i].author = RelayKey
         /\ Rebuild(UpTo(log, i)) # None) =>
            LET seeded == Seeded(log[i])
                folded == Rebuild(UpTo(log, i))[1]
            IN /\ seeded.guildId = folded.guildId
               /\ seeded.description = folded.description
               /\ seeded.ownerId = folded.ownerId
               /\ seeded.access = folded.access
               /\ seeded.createdAt = folded.createdAt
               /\ seeded.channels = folded.channels
               /\ seeded.roles = folded.roles
               /\ seeded.members = folded.members
               /\ seeded.bans = folded.bans

\* processEvent of socket s has read the head and has not returned
InProgress(s) == task[s].pc \in {"gotLast", "gotLog", "put1", "appended"}

CacheHit(s) ==
    /\ task[s].pc = "gotLast"
    /\ task[s].ev # None
    /\ stateCache # None
    /\ stateCache[1].headSeq = task[s].ev[1].seq

\* C28: whenever an ingest validates an event with seq above 0 against the cached
\* state, that state is the fold of the guild's stored log at that moment, after
\* any publishes, failed appends, checkpoints and prunes.
C28_CacheAgreesWithLog ==
    \A s \in Sockets :
        CacheHit(s) => (getLog # <<>> /\ stateCache = Rebuild(getLog))

\* the ingest on socket s ends in this step with its event stored and handed to
\* broadcast
EndsAccepted(s) ==
    /\ task[s].pc = "appended"
    /\ \E i \in 1..Len(getLog) : getLog[i] = task[s].ev[1]
    /\ sent' = broadcast(sent, task[s].ev[1])

\* the ingest on socket s ends in this step with an ERROR frame to its publisher
EndsRejected(s) ==
    /\ Len(sent'[s]) = Len(sent[s]) + 1
    /\ sent'[s][Len(sent'[s])].kind = "ERROR"

\* a PUBLISH of socket s is in the guild's promise chain
Ingesting(s) == task[s].pc = "queued" \/ InProgress(s)

\* C29: every PUBLISH frame the relay has received is in the end either appended
\* and broadcast or answered with an ERROR frame; when its ingest ends, accepted,
\* rejected or failed, it has left the guild's promise chain, so the ingests
\* behind it proceed.
C29_EveryPublishEnds ==
    /\ \A s \in Sockets : Ingesting(s) ~> ~Ingesting(s)
    /\ [][\A s \in Sockets :
             (Ingesting(s) /\ ~Ingesting(s)') =>
                 /\ EndsAccepted(s) \/ EndsRejected(s)
                 /\ \A i \in 1..Len(mutexes') : mutexes'[i] # s]_vars

\* three publishes have ended, one accepted and broadcast to the subscriber,
\* one rejected, one failed at the store, and the chain is empty
C29_Witness ==
    /\ work.publish = 3 /\ work.accepted = 1 /\ work.fail = 1
    /\ \A s \in Sockets : task[s].pc = "idle"
    /\ mutexes = <<>>
    /\ \E i \in 1..Len(sent["s2"]) : sent["s2"][i].kind = "EVENT"
    /\ \E s \in Sockets : \E i \in 1..Len(sent[s]) :
          sent[s][i].kind = "ERROR" /\ sent[s][i].code = "VALIDATION_FAILED"
    /\ \E s \in Sockets : \E i \in 1..Len(sent[s]) :
          sent[s][i].kind = "ERROR" /\ sent[s][i].code = "INTERNAL_ERROR"

\* C30: at most one createCheckpoints() call and at most one prune() call is in
\* progress at any time: a tick that fires while the call of the tick before is
\* still running starts no second one.
C30_NoOverlappingIterations ==
    /\ ~(ckpt.pc # "idle" /\ overlap.ckpt.pc # "idle")
    /\ ~(prn.pc # "idle" /\ overlap.prn.pc # "idle")

\* C31: when a createCheckpoints() or prune() call over several guilds ends,
\* every guild other than one whose processing failed has had its turn in that
\* call.
C31_OtherGuildsProcessed ==
    (sweep # <<>> /\ sweep.pc = "idle") =>
        \A guild \in SweepGuilds \ sweep.failed : guild \in sweep.visited

\* a text that is not JSON, or JSON that is not an array
Malformed(raw) == raw.type # "array"

\* C32: every inbound frame that is not JSON, or is JSON but not an array, is
\* answered on its socket with exactly one ERROR frame whose code is INVALID_FRAME.
C32_MalformedGetsInvalidFrame ==
    [][\A s \in Sockets, raw \in RawFrames :
          (RecvFrame(s, raw) /\ Malformed(raw)) =>
              sent'[s] = Append(sent[s], ErrorFrame("INVALID_FRAME", "Parse error"))]_vars

\* what validate() reads of a guild state
ValidatorView(state) ==
    [channels |-> state.channels, roles |-> state.roles, members |-> state.members,
     bans |-> state.bans, ownerId |-> state.ownerId, access |-> state.access]

\* C33: a deleteEvent of prune() leaves the state the validator reads as it
\* was: the log still folds, and the channels, roles, members, bans, owner and
\* access folded from it are those folded from the log before the deletion.
C33_PruneKeepsValidatorView ==
    [][(PruneDelete /\ Len(getLog) > 0 /\ Rebuild(getLog) # None) =>
          LET after == getLog'
          IN /\ Len(after) > 0
             /\ Rebuild(after) # None
             /\ ValidatorView(Rebuild(after)[1]) = ValidatorView(Rebuild(getLog)[1])]_vars

\* the head a peer holds is not lost: it keeps a state, whose head is not
\* behind, and is the same event if it is at the same seq
HeadKept(c) ==
    clients[c].state # None =>
        /\ clients'[c].state # None
        /\ clients'[c].state[1].headSeq >= clients[c].state[1].headSeq
        /\ clients'[c].state[1].headSeq = clients[c].state[1].headSeq =>
               clients'[c].state[1].headHash = clients[c].state[1].headHash

\* C34: once a client holds head (n, h), no EVENT or SNAPSHOT frame it handles
\* leaves it with a head behind n or with another event at seq n, and a
\* snapshot that replaces its state has the event h at seq n.
C34_HeadPinned ==
    [][\A c \in Peers :
          /\ HeadKept(c)
          /\ \A events \in FeedSnapshots :
                 (Snapshot(c, events) /\ clients[c].state # None
                    /\ clients'[c].state # clients[c].state) =>
                     \E i \in 1..Len(events) :
                         /\ events[i].seq = clients[c].state[1].headSeq
                         /\ events[i].id = clients[c].state[1].headHash]_vars

\* C38: a frame that fails signature verification has no say in what happens
\* to the genuine event of the same id: a peer without a state that has not
\* emitted the genuine genesis applies and emits it when its EVENT frame arrives.
C38_ForgedFrameHasNoEffect ==
    [][\A c \in Peers :
          (Inbound(c, Genesis) /\ clients[c].state = None
             /\ \A i \in 1..Len(clients[c].emitted) : clients[c].emitted[i] # Genesis) =>
              /\ clients'[c].state = Some(createInitialState(Genesis))
              /\ clients'[c].emitted = Append(clients[c].emitted, Genesis)]_vars

\* C39: a peer emits "event" at most once per event id.
C39_EmittedOncePerId ==
    \A c \in Peers :
        \A i, j \in 1..Len(clients[c].emitted) :
            clients[c].emitted[i].id = clients[c].emitted[j].id => i = j

\* what a valid chain is said to be
SeqsDense(events) == \A i \in 1..Len(events) : events[i].seq = i - 1

Linked(events) ==
    \A i \in 1..Len(events) :
        events[i].prevHash = IF i = 1 THEN Null ELSE events[i - 1].id

IdsRecomputed(events) == \A i \in 1..Len(events) : events[i].id = FiveFieldId(events[i])

SignaturesVerify(events) ==
    \A i \in 1..Len(events) :
        verify(events[i].author,
               hashObject(unsignedForSig(events[i].body, events[i].author,
                                         events[i].createdAt)),
               events[i].signature)

\* every event names the guild of the first one.  (An id is a hash over the
\* body, so a body cannot hold its own event's id as guildId; that the first
\* guildId is the genesis id is not part of the formula below.)
OneGuild(events) ==
    \A i \in 1..Len(events) : events[i].body.guildId = events[1].body.guildId

\* C35: validateChain(events) returns true exactly when the seqs are dense
\* from 0, the prevHash links hold, every id is the recomputed hash, every
\* signature verifies and every event's body.guildId is the guild of the genesis.
C35_ValidateChainExact ==
    chain # <<>> =>
        (chain.returned <=>
            /\ SeqsDense(chain.events)
            /\ Linked(chain.events)
            /\ IdsRecomputed(chain.events)
            /\ SignaturesVerify(chain.events)
            /\ OneGuild(chain.events))

\* C35 (amended): validateChain(events) returns true exactly when the seqs are
\* dense from 0, the first prevHash is null and every later one is the id
\* before it, and every id is the hash of the event's five fields; signatures
\* and guildIds are not looked at.
C35_ValidateChainStructure ==
    chain # <<>> =>
        (chain.returned <=>
            /\ SeqsDense(chain.events)
            /\ Linked(chain.events)
            /\ IdsRecomputed(chain.events))

\* validateChain has returned true on three events, of which one carries a
\* signature that does not verify
C35_Witness ==
    /\ chain # <<>>
    /\ chain.returned
    /\ Len(chain.events) = MaxChain
    /\ ~SignaturesVerify(chain.events)

\* the events a step adds to the stored log
Added == {getLog'[i] : i \in 1..Len(getLog')} \ {getLog[i] : i \in 1..Len(getLog)}

\* C36: the relay never stores an event at a seq at which it holds another
\* event: every event a step adds to the log has a seq that no stored event has.
C36_SeqNeverReused ==
    [][\A e \in Added : \A i \in 1..Len(getLog) : getLog[i].seq # e.seq]_vars

\* the event of the highest seq in a log, or nothing
HighestSeq(log) ==
    IF Len(log) = 0 THEN None
    ELSE Some(CHOOSE e \in {log[i] : i \in 1..Len(log)} :
                  \A i \in 1..Len(log) : log[i].seq <= e.seq)

\* getGuildIds() of the LevelStore lists the guild
LevelHasGuild == DOMAIN db.ev # {} \/ db.head # <<>>

\* C37: after the same append and deleteEvent calls the two stores return the
\* same getLog, in ascending seq, the same getGuildIds and the same
\* getLastEvent, which is the event of the highest seq in getLog, or nothing
\* when the log is empty.
C37_StoresEquivalent ==
    /\ MemGetLog = LevelGetLog
    /\ \A i, j \in 1..Len(MemGetLog) : i < j => MemGetLog[i].seq < MemGetLog[j].seq
    /\ hasLog = LevelHasGuild
    /\ MemGetLastEvent = LevelGetLastEvent
    /\ MemGetLastEvent = HighestSeq(MemGetLog)

\* the users with both a member record and a ban in a state
BannedMembers(state) == {u \in Users : MapHas(state.members, u) /\ MapHas(state.bans, u)}

\* C40: in the state folded from the stored log, and in the cached state, no
\* user is both a member and banned.
C40_MembersBansDisjoint ==
    /\ (Len(getLog) > 0 /\ Rebuild(getLog) # None) => BannedMembers(Rebuild(getLog)[1]) = {}
    /\ stateCache # None => BannedMembers(stateCache[1]) = {}

====
